---- MODULE Spec2Model ----
(***************************************************************************)
(* State-machine model of the InvoiceManager contract                      *)
(* (src/packages/hardhat/scripts/payInvoice.ts, lines 130-422).            *)
(*                                                                         *)
(* One action per external function.  withdraw and withdrawPending hand    *)
(* control to the recipient inside sendValue, so each is split at that     *)
(* call: the function's action runs up to the call and pushes a frame, the *)
(* recipient may then call back into the contract, and sendValueReturn     *)
(* finishes the function (or reverts the whole transaction).               *)
(***************************************************************************)
EXTENDS Integers, Sequences, FiniteSets, TLC

\* ------------------------------------------------------------------ bounds
NumAccounts == 3
MaxInvoices == 2
MaxAmount == 2
MaxFunds == 3
MaxNested == 1
MaxSent == 4
MaxCreated == 1

\* --------------------------------------------------------------- constants
ZeroAddress == 0
Accounts == 1..NumAccounts
Addresses == {ZeroAddress} \cup Accounts
Owner == 1

\* ids a caller may name: the allocated ones and one that never exists
InvoiceIds == 0..MaxInvoices
\* createInvoice is tried with no amount and with the largest one
Amounts == {0, MaxAmount}
Values == 0..(MaxAmount + 1)
\* who issues invoices and whom they are addressed to in the explored runs
Issuers == {1, 2}
Payers == {ZeroAddress, 2, 3}
\* the (dueDate, metadata) pairs invoices are created with
Terms == {<<1, "ipfs://QmTest123">>}

NOT_ENTERED == 1
ENTERED == 2

Ok == "ok"
ErrAmountZero == "InvoiceManager: amount must be greater than 0"
ErrPaymentZero == "InvoiceManager: payment amount must be greater than 0"
ErrNotExist == "InvoiceManager: invoice does not exist"
ErrCancelled == "InvoiceManager: invoice is cancelled"
ErrNotAddressed == "InvoiceManager: invoice is not addressed to you"
ErrFullyPaid == "InvoiceManager: invoice is already fully paid"
ErrOnlyIssuerWithdraw == "InvoiceManager: only issuer can withdraw"
ErrNoFunds == "InvoiceManager: no funds to withdraw"
ErrOnlyIssuerCancel == "InvoiceManager: only issuer can cancel"
ErrAlreadyCancelled == "InvoiceManager: invoice is already cancelled"
ErrNoPending == "InvoiceManager: no pending returns"
ErrReentrant == "ReentrancyGuardReentrantCall"
ErrSendValue == "Address: unable to send value"
ErrInsufficientBalance == "Address: insufficient balance"
ErrPanic == "Panic(0x11)"

VARIABLES
    nextInvoiceId,      \* uint256 public nextInvoiceId
    invoices,           \* mapping(uint256 => Invoice)
    invoiceMetadata,    \* mapping(uint256 => string)
    pendingReturns,     \* mapping(address => uint256)
    invoicesOfIssuer,   \* mapping(address => uint256[])
    invoicesOfPayer,    \* mapping(address => uint256[])
    balance,            \* address(this).balance
    status,             \* ReentrancyGuard's _status
    frame,              \* call stack: the pending sendValue, if any
    result,             \* outcome of the last call: Ok or its revert reason
    logs,               \* events of the current transaction (its receipt)
    sent,               \* value transfers completed by the current transaction
    history             \* totals over the committed transactions so far

storage == <<nextInvoiceId, invoices, invoiceMetadata, pendingReturns,
             invoicesOfIssuer, invoicesOfPayer>>
ledger == <<nextInvoiceId, invoices, invoiceMetadata, pendingReturns,
            invoicesOfIssuer, invoicesOfPayer, balance>>
vars == <<nextInvoiceId, invoices, invoiceMetadata, pendingReturns,
          invoicesOfIssuer, invoicesOfPayer, balance, status, frame,
          result, logs, sent, history>>

\* nothing has happened yet: per invoice, whether paidAmount ever reached
\* amount, the total applied by payments and the total of InvoiceWithdrawn
\* amounts; per account, the total msg.value of its successful payments and the
\* total of its PendingReturnWithdrawn amounts
NoHistory ==
    [everFull |-> {}, applied |-> [i \in InvoiceIds |-> 0],
     withdrawn |-> [i \in InvoiceIds |-> 0], sentBy |-> [a \in Addresses |-> 0],
     pulledBy |-> [a \in Addresses |-> 0]]

\* the zero value of struct Invoice: what an unset mapping slot reads as
EmptyInvoice ==
    [id |-> 0, issuer |-> ZeroAddress, payer |-> ZeroAddress, amount |-> 0,
     paidAmount |-> 0, dueDate |-> 0, cancelled |-> FALSE]

\* a record that stores the two parties the wrong way round
InvoiceSwapped(invoiceId, issuer, payer, amount, dueDate) ==
    [id |-> invoiceId, issuer |-> payer, payer |-> issuer, amount |-> amount,
     paidAmount |-> 0, dueDate |-> dueDate, cancelled |-> FALSE]

Invoice(invoiceId, issuer, payer, amount, dueDate) ==
    [id |-> invoiceId, issuer |-> issuer, payer |-> payer, amount |-> amount,
     paidAmount |-> 0, dueDate |-> dueDate, cancelled |-> FALSE]

InvoiceCreated(id, issuer, payer, amount) ==
    [name |-> "InvoiceCreated", id |-> id, issuer |-> issuer, payer |-> payer,
     amount |-> amount]
InvoicePaid(id, payer, amount, paidAmount) ==
    [name |-> "InvoicePaid", id |-> id, payer |-> payer, amount |-> amount,
     paidAmount |-> paidAmount]
InvoiceCancelled(id) ==
    [name |-> "InvoiceCancelled", id |-> id]
InvoiceWithdrawn(id, issuer, amount) ==
    [name |-> "InvoiceWithdrawn", id |-> id, issuer |-> issuer, amount |-> amount]
PendingReturnWithdrawn(user, amount) ==
    [name |-> "PendingReturnWithdrawn", user |-> user, amount |-> amount]

Init ==
    /\ nextInvoiceId = 0
    /\ invoices = [i \in InvoiceIds |-> EmptyInvoice]
    /\ invoiceMetadata = [i \in InvoiceIds |-> ""]
    /\ pendingReturns = [a \in Addresses |-> 0]
    /\ invoicesOfIssuer = [a \in Addresses |-> <<>>]
    /\ invoicesOfPayer = [a \in Addresses |-> <<>>]
    /\ balance = 0
    /\ status = NOT_ENTERED
    /\ frame = <<>>
    /\ result = Ok
    /\ logs = <<>>
    /\ sent = <<>>
    /\ history = NoHistory

\* ------------------------------------------------------- call bookkeeping
\* a call made by the recipient of a pending sendValue
InCallback == frame # <<>>

\* a call can start: a new transaction, or a call-back within the budget
CanCall == InCallback => frame[1].nested < MaxNested

\* the frame after one more call-back has run
Called ==
    IF InCallback THEN <<[frame[1] EXCEPT !.nested = @ + 1]>> ELSE frame

\* events and transfers of the transaction the next call belongs to
TxLogs == IF InCallback THEN logs ELSE <<>>
TxSent == IF InCallback THEN sent ELSE <<>>

\* a refusal that credits the caller instead of undoing the call
RevertCredits(sender, reason) ==
    /\ result' = reason
    /\ logs' = TxLogs
    /\ sent' = TxSent
    /\ frame' = Called
    /\ pendingReturns' = [pendingReturns EXCEPT ![sender] = @ + 1]
    /\ UNCHANGED <<nextInvoiceId, invoices, invoiceMetadata, invoicesOfIssuer,
                   invoicesOfPayer, balance, status>>

\* the call reverts: its own effects are undone, the caller sees the reason
Revert(sender, reason) ==
    /\ result' = reason
    /\ logs' = TxLogs
    /\ sent' = TxSent
    /\ frame' = Called
    /\ UNCHANGED <<ledger, status>>

\* a call that returns normally without emitting its event
ReturnSilent(sender, event) ==
    /\ result' = Ok
    /\ logs' = TxLogs
    /\ sent' = TxSent
    /\ frame' = Called

\* the call returns normally, having emitted one event
Return(sender, event) ==
    /\ result' = Ok
    /\ logs' = Append(TxLogs, event)
    /\ sent' = TxSent
    /\ frame' = Called

\* the state a revert of the whole transaction goes back to
Snapshot ==
    [nextInvoiceId |-> nextInvoiceId, invoices |-> invoices,
     invoiceMetadata |-> invoiceMetadata, pendingReturns |-> pendingReturns,
     invoicesOfIssuer |-> invoicesOfIssuer, invoicesOfPayer |-> invoicesOfPayer,
     balance |-> balance]

\* ------------------------------------------------------------ createInvoice
\* an id counter that skips an id at every allocation
incrementedTwice(id) == id + 2

\* nextInvoiceId++
incremented(id) == id + 1

\* a payer index that files open invoices under address(0)
payerIndexedAlways(index, payer, invoiceId) ==
    [index EXCEPT ![payer] = Append(@, invoiceId)]

\* if (payer != address(0)) invoicesOfPayer[payer].push(invoiceId)
payerIndexed(index, payer, invoiceId) ==
    IF payer # ZeroAddress
    THEN [index EXCEPT ![payer] = Append(@, invoiceId)]
    ELSE index

\* the id the call returns is the one it stores the record under and emits
createInvoice(sender, payer, amount, dueDate, metadata) ==
    /\ CanCall
    /\ amount > 0 => nextInvoiceId < MaxInvoices
    /\ IF ~(amount > 0)
       THEN Revert(sender, ErrAmountZero)
       ELSE LET invoiceId == nextInvoiceId IN
            /\ nextInvoiceId' = incremented(nextInvoiceId)
            /\ invoices' = [invoices EXCEPT ![invoiceId] =
                                Invoice(invoiceId, sender, payer, amount, dueDate)]
            /\ invoiceMetadata' = [invoiceMetadata EXCEPT ![invoiceId] = metadata]
            /\ invoicesOfIssuer' = [invoicesOfIssuer EXCEPT ![sender] =
                                        Append(@, invoiceId)]
            /\ invoicesOfPayer' = payerIndexed(invoicesOfPayer, payer, invoiceId)
            /\ Return(sender, InvoiceCreated(invoiceId, sender, payer, amount))
            /\ UNCHANGED <<pendingReturns, balance, status>>

\* --------------------------------------------------------------- payInvoice
\* require(invoice.issuer != address(0), ...)
exists(invoice) == invoice.issuer # ZeroAddress

\* a cancelled check that never fires
notCancelledAlways(invoice) == TRUE

\* require(!invoice.cancelled, ...)
notCancelled(invoice) == ~invoice.cancelled

\* a payer check that lets every caller through
payerAllowedAnyone(invoice, sender) == TRUE

\* require(invoice.payer == address(0) || invoice.payer == msg.sender, ...)
payerAllowed(invoice, sender) ==
    invoice.payer = ZeroAddress \/ invoice.payer = sender

\* a payInvoice that credits the whole msg.value to the invoice
paymentAmountUncapped(value, remaining) == value

\* the part of msg.value credited to the invoice
paymentAmount(value, remaining) ==
    IF value > remaining THEN remaining ELSE value

\* an overpaying payment that credits the whole msg.value, not the excess
overpayWhole(value, remaining) == IF value > remaining THEN value ELSE 0

\* a payInvoice that keeps the excess instead of storing it for the sender
overpayDropped(value, remaining) == 0

\* the part of msg.value stored in pendingReturns
overpay(value, remaining) ==
    IF value > remaining THEN value - remaining ELSE 0

\* a fully-paid check that never fires
hasRemainingAlways(remaining) == TRUE

\* require(remaining > 0, ...)
hasRemaining(remaining) == remaining > 0

\* a payInvoice that checks the payer before the cancelled flag
payInvoicePayerFirst(sender, invoiceId, value) ==
    /\ CanCall
    /\ balance + value <= MaxFunds
    /\ LET invoice == invoices[invoiceId] IN
       IF status = ENTERED THEN Revert(sender, ErrReentrant)
       ELSE IF ~(value > 0) THEN Revert(sender, ErrPaymentZero)
       ELSE IF ~exists(invoice) THEN Revert(sender, ErrNotExist)
       ELSE IF ~payerAllowed(invoice, sender) THEN Revert(sender, ErrNotAddressed)
       ELSE IF ~notCancelled(invoice) THEN Revert(sender, ErrCancelled)
       ELSE IF invoice.paidAmount > invoice.amount THEN Revert(sender, ErrPanic)
       ELSE LET remaining == invoice.amount - invoice.paidAmount IN
            IF ~hasRemaining(remaining) THEN Revert(sender, ErrFullyPaid)
            ELSE LET newPaid == invoice.paidAmount + paymentAmount(value, remaining) IN
                 /\ pendingReturns' = [pendingReturns EXCEPT ![sender] =
                                           @ + overpay(value, remaining)]
                 /\ invoices' = [invoices EXCEPT ![invoiceId].paidAmount = newPaid]
                 /\ balance' = balance + value
                 /\ Return(sender, InvoicePaid(invoiceId, sender,
                                               paymentAmount(value, remaining), newPaid))
                 /\ UNCHANGED <<nextInvoiceId, invoiceMetadata, invoicesOfIssuer,
                                invoicesOfPayer, status>>

payInvoice(sender, invoiceId, value) ==
    /\ CanCall
    /\ balance + value <= MaxFunds
    /\ LET invoice == invoices[invoiceId] IN
       IF status = ENTERED THEN Revert(sender, ErrReentrant)
       ELSE IF ~(value > 0) THEN Revert(sender, ErrPaymentZero)
       ELSE IF ~exists(invoice) THEN Revert(sender, ErrNotExist)
       ELSE IF ~notCancelled(invoice) THEN Revert(sender, ErrCancelled)
       ELSE IF ~payerAllowed(invoice, sender) THEN Revert(sender, ErrNotAddressed)
       ELSE IF invoice.paidAmount > invoice.amount THEN Revert(sender, ErrPanic)
       ELSE LET remaining == invoice.amount - invoice.paidAmount IN
            IF ~hasRemaining(remaining) THEN Revert(sender, ErrFullyPaid)
            ELSE LET newPaid == invoice.paidAmount + paymentAmount(value, remaining) IN
                 /\ pendingReturns' = [pendingReturns EXCEPT ![sender] =
                                           @ + overpay(value, remaining)]
                 /\ invoices' = [invoices EXCEPT ![invoiceId].paidAmount = newPaid]
                 /\ balance' = balance + value
                 /\ Return(sender, InvoicePaid(invoiceId, sender,
                                               paymentAmount(value, remaining), newPaid))
                 /\ UNCHANGED <<nextInvoiceId, invoiceMetadata, invoicesOfIssuer,
                                invoicesOfPayer, status>>

\* ----------------------------------------------------------------- sendValue
\* a transfer that goes to the contract's owner instead of the caller
sendValueToOwner(fn, sender, invoiceId, amount) ==
    IF balance < amount
    THEN Revert(sender, ErrInsufficientBalance)
    ELSE /\ balance' = balance - amount
         /\ status' = ENTERED
         /\ frame' = <<[fn |-> fn, to |-> Owner, invoiceId |-> invoiceId,
                        amount |-> amount, nested |-> 0, snap |-> Snapshot]>>
         /\ result' = "pending"
         /\ logs' = <<>>
         /\ sent' = <<>>

\* Address.sendValue up to the point where the recipient gains control
\* a function that emits its event before it makes the transfer
sendValueEmitsFirst(fn, sender, invoiceId, amount) ==
    IF balance < amount
    THEN Revert(sender, ErrInsufficientBalance)
    ELSE /\ balance' = balance - amount
         /\ status' = ENTERED
         /\ frame' = <<[fn |-> fn, to |-> sender, invoiceId |-> invoiceId,
                        amount |-> amount, nested |-> 0, snap |-> Snapshot]>>
         /\ result' = "pending"
         /\ logs' = <<IF fn = "withdraw"
                      THEN InvoiceWithdrawn(invoiceId, sender, amount)
                      ELSE PendingReturnWithdrawn(sender, amount)>>
         /\ sent' = <<>>

sendValue(fn, sender, invoiceId, amount) ==
    IF balance < amount
    THEN Revert(sender, ErrInsufficientBalance)
    ELSE /\ balance' = balance - amount
         /\ status' = ENTERED
         /\ frame' = <<[fn |-> fn, to |-> sender, invoiceId |-> invoiceId,
                        amount |-> amount, nested |-> 0, snap |-> Snapshot]>>
         /\ result' = "pending"
         /\ logs' = <<>>
         /\ sent' = <<>>

\* ----------------------------------------------------------------- withdraw
\* an issuer check that lets every caller through
isIssuerAnyone(invoice, sender) == TRUE

\* require(invoice.issuer == msg.sender, ...)
isIssuer(invoice, sender) == invoice.issuer = sender

\* a withdraw that closes the invoice it has paid out
withdrawnClosed(invoice) == [invoice EXCEPT !.paidAmount = 0, !.cancelled = TRUE]

\* a withdraw that deletes the record it has paid out
withdrawnDeleted(invoice) == EmptyInvoice

\* a withdraw that leaves the withdrawn amount on the invoice
withdrawnKept(invoice) == invoice

\* invoice.paidAmount = 0
withdrawn(invoice) == [invoice EXCEPT !.paidAmount = 0]

\* a funds check that never fires
hasFundsAlways(invoice) == TRUE

\* a withdraw that refuses cancelled invoices
hasFundsLive(invoice) == invoice.paidAmount > 0 /\ ~invoice.cancelled

\* require(invoice.paidAmount > 0, ...)
hasFunds(invoice) == invoice.paidAmount > 0

withdraw(sender, invoiceId) ==
    /\ CanCall
    /\ LET invoice == invoices[invoiceId] IN
       IF status = ENTERED THEN Revert(sender, ErrReentrant)
       ELSE IF ~exists(invoice) THEN Revert(sender, ErrNotExist)
       ELSE IF ~isIssuer(invoice, sender) THEN Revert(sender, ErrOnlyIssuerWithdraw)
       ELSE IF ~hasFunds(invoice) THEN Revert(sender, ErrNoFunds)
       ELSE LET withdrawAmount == invoice.paidAmount IN
            /\ sendValue("withdraw", sender, invoiceId, withdrawAmount)
            /\ IF balance < withdrawAmount
               THEN TRUE
               ELSE /\ invoices' = [invoices EXCEPT ![invoiceId] = withdrawn(invoice)]
                    /\ UNCHANGED <<nextInvoiceId, invoiceMetadata, pendingReturns,
                                   invoicesOfIssuer, invoicesOfPayer>>

\* ------------------------------------------------------------ cancelInvoice
\* a cancelInvoice that refunds open invoices only
refundDueOpenOnly(invoice) == invoice.paidAmount > 0 /\ invoice.payer = ZeroAddress

\* a cancelInvoice that never refunds
refundDueNever(invoice) == FALSE

\* a cancelInvoice that refunds whatever the payer field holds
refundDueAnyPayer(invoice) == invoice.paidAmount > 0

\* if (invoice.paidAmount > 0 && invoice.payer != address(0))
refundDue(invoice) == invoice.paidAmount > 0 /\ invoice.payer # ZeroAddress

\* a cancelInvoice that forgets to set the flag
setCancelledNot(invoice) == invoice

\* invoice.cancelled = true
setCancelled(invoice) == [invoice EXCEPT !.cancelled = TRUE]

\* a cancelInvoice that credits the refund but leaves paidAmount on the invoice
refundedKept(invoice) == invoice

\* pendingReturns[invoice.payer] += invoice.paidAmount; invoice.paidAmount = 0
refunded(invoice) == [invoice EXCEPT !.paidAmount = 0]

\* a cancelInvoice that checks the cancelled flag before the issuer
cancelInvoiceStateFirst(sender, invoiceId) ==
    /\ CanCall
    /\ LET invoice == invoices[invoiceId] IN
       IF ~exists(invoice) THEN Revert(sender, ErrNotExist)
       ELSE IF ~notCancelled(invoice) THEN Revert(sender, ErrAlreadyCancelled)
       ELSE IF ~isIssuer(invoice, sender) THEN Revert(sender, ErrOnlyIssuerCancel)
       ELSE /\ IF refundDue(invoice)
               THEN /\ pendingReturns' = [pendingReturns EXCEPT ![invoice.payer] =
                                              @ + invoice.paidAmount]
                    /\ invoices' = [invoices EXCEPT ![invoiceId] =
                                        refunded(setCancelled(invoice))]
               ELSE /\ pendingReturns' = pendingReturns
                    /\ invoices' = [invoices EXCEPT ![invoiceId] = setCancelled(invoice)]
            /\ Return(sender, InvoiceCancelled(invoiceId))
            /\ UNCHANGED <<nextInvoiceId, invoiceMetadata, invoicesOfIssuer,
                           invoicesOfPayer, balance, status>>

cancelInvoice(sender, invoiceId) ==
    /\ CanCall
    /\ LET invoice == invoices[invoiceId] IN
       IF ~exists(invoice) THEN Revert(sender, ErrNotExist)
       ELSE IF ~isIssuer(invoice, sender) THEN Revert(sender, ErrOnlyIssuerCancel)
       ELSE IF ~notCancelled(invoice) THEN Revert(sender, ErrAlreadyCancelled)
       ELSE /\ IF refundDue(invoice)
               THEN /\ pendingReturns' = [pendingReturns EXCEPT ![invoice.payer] =
                                              @ + invoice.paidAmount]
                    /\ invoices' = [invoices EXCEPT ![invoiceId] =
                                        refunded(setCancelled(invoice))]
               ELSE /\ pendingReturns' = pendingReturns
                    /\ invoices' = [invoices EXCEPT ![invoiceId] = setCancelled(invoice)]
            /\ Return(sender, InvoiceCancelled(invoiceId))
            /\ UNCHANGED <<nextInvoiceId, invoiceMetadata, invoicesOfIssuer,
                           invoicesOfPayer, balance, status>>

\* ---------------------------------------------------------- withdrawPending
\* a pending-returns check that never fires
hasPendingAlways(amount) == TRUE

\* require(amount > 0, ...)
hasPending(amount) == amount > 0

\* a withdrawPending that books a fixed debit instead of the amount it pays
clearedDebited(returns, sender) == [returns EXCEPT ![sender] = @ - MaxAmount]

\* a withdrawPending that leaves the balance it pays out on the books
clearedKept(returns, sender) == returns

\* a withdrawPending that wipes every account's balance
clearedAll(returns, sender) == [a \in DOMAIN returns |-> 0]

\* pendingReturns[msg.sender] = 0
cleared(returns, sender) == [returns EXCEPT ![sender] = 0]

withdrawPending(sender) ==
    /\ CanCall
    /\ LET amount == pendingReturns[sender] IN
       IF status = ENTERED THEN Revert(sender, ErrReentrant)
       ELSE IF ~hasPending(amount) THEN Revert(sender, ErrNoPending)
       ELSE /\ sendValue("withdrawPending", sender, 0, amount)
            /\ IF balance < amount
               THEN TRUE
               ELSE /\ pendingReturns' = cleared(pendingReturns, sender)
                    /\ UNCHANGED <<nextInvoiceId, invoices, invoiceMetadata,
                                   invoicesOfIssuer, invoicesOfPayer>>

\* ----------------------------------------------------------- end of sendValue
\* the event the suspended function emits once its transfer has succeeded
emitAfterTransfer(f) ==
    IF f.fn = "withdraw"
    THEN InvoiceWithdrawn(f.invoiceId, f.to, f.amount)
    ELSE PendingReturnWithdrawn(f.to, f.amount)

\* a revert that gives the value back but keeps the storage writes
rollbackBalanceOnly(f) ==
    /\ balance' = f.snap.balance
    /\ UNCHANGED storage

\* require(success, ...) fails inside sendValue: the transaction reverts, and
\* every storage write and value movement since it began is undone
rollback(f) ==
    /\ nextInvoiceId' = f.snap.nextInvoiceId
    /\ invoices' = f.snap.invoices
    /\ invoiceMetadata' = f.snap.invoiceMetadata
    /\ pendingReturns' = f.snap.pendingReturns
    /\ invoicesOfIssuer' = f.snap.invoicesOfIssuer
    /\ invoicesOfPayer' = f.snap.invoicesOfPayer
    /\ balance' = f.snap.balance

\* the recipient returns (success) or reverts (failure): the suspended
\* function emits its event, or the whole transaction is rolled back
sendValueReturn(success) ==
    /\ InCallback
    /\ LET f == frame[1] IN
       IF success
       THEN /\ logs' = Append(logs, emitAfterTransfer(f))
            /\ sent' = Append(sent, [to |-> f.to, amount |-> f.amount])
            /\ result' = Ok
            /\ status' = NOT_ENTERED
            /\ frame' = <<>>
            /\ UNCHANGED ledger
       ELSE /\ rollback(f)
            /\ logs' = <<>>
            /\ sent' = <<>>
            /\ result' = ErrSendValue
            /\ status' = NOT_ENTERED
            /\ frame' = <<>>

\* ------------------------------------------------------------------ receive
\* receive() external payable {}
receive(value) ==
    /\ CanCall
    /\ value > 0
    /\ balance + value <= MaxFunds
    /\ balance' = balance + value
    /\ result' = Ok
    /\ logs' = TxLogs
    /\ sent' = TxSent
    /\ frame' = Called
    /\ UNCHANGED <<storage, status>>

\* -------------------------------------------------------------------- views
\* the view functions, as what a call made in the current state returns; they
\* carry no guard, so they can be called at any time, the time the recipient
\* of a pending sendValue has control included
getInvoice(invoiceId) ==
    IF ~exists(invoices[invoiceId])
    THEN [error |-> ErrNotExist, invoice |-> EmptyInvoice, metadata |-> ""]
    ELSE [error |-> Ok, invoice |-> invoices[invoiceId],
          metadata |-> invoiceMetadata[invoiceId]]

getInvoicesOfIssuer(issuer) == invoicesOfIssuer[issuer]

getInvoicesOfPayer(payer) == invoicesOfPayer[payer]

\* a getRemainingAmount that ignores what has been paid
getRemainingAmountTotal(invoiceId) ==
    LET invoice == invoices[invoiceId] IN
    IF ~exists(invoice)
    THEN [error |-> ErrNotExist, remaining |-> 0]
    ELSE [error |-> Ok, remaining |-> invoice.amount]

getRemainingAmount(invoiceId) ==
    LET invoice == invoices[invoiceId] IN
    IF ~exists(invoice)
    THEN [error |-> ErrNotExist, remaining |-> 0]
    ELSE [error |-> Ok,
          remaining |-> IF invoice.amount > invoice.paidAmount
                        THEN invoice.amount - invoice.paidAmount
                        ELSE 0]

\* -------------------------------------------------------------------- Next
CreateInvoice ==
    \E sender \in Issuers, payer \in Payers, amount \in Amounts, terms \in Terms :
        createInvoice(sender, payer, amount, terms[1], terms[2])
            /\ UNCHANGED history
PayInvoice ==
    \E sender \in Accounts, invoiceId \in InvoiceIds, value \in Values :
        payInvoice(sender, invoiceId, value) /\ UNCHANGED history
Withdraw ==
    \E sender \in Accounts, invoiceId \in InvoiceIds :
        withdraw(sender, invoiceId) /\ UNCHANGED history
CancelInvoice ==
    \E sender \in Accounts, invoiceId \in InvoiceIds :
        cancelInvoice(sender, invoiceId) /\ UNCHANGED history
WithdrawPending ==
    \E sender \in Accounts : withdrawPending(sender) /\ UNCHANGED history
SendValueReturn ==
    \E success \in BOOLEAN : sendValueReturn(success) /\ UNCHANGED history
Receive ==
    \E value \in Values : receive(value) /\ UNCHANGED history

Next ==
    \/ CreateInvoice
    \/ PayInvoice
    \/ Withdraw
    \/ CancelInvoice
    \/ WithdrawPending
    \/ SendValueReturn
    \/ Receive

Spec == Init /\ [][Next]_vars

\* ------------------------------------------------------------------ history
\* the same program with the totals kept: every call is the call above, and
\* the totals follow the transactions that commit
SentTotal == history.sentBy[1] + history.sentBy[2] + history.sentBy[3]

\* a successful payment: msg.value counts for the sender, the applied part for
\* the invoice
paid(sender, invoiceId, value) ==
    LET remaining == invoices[invoiceId].amount - invoices[invoiceId].paidAmount IN
    [history EXCEPT
        !.sentBy[sender] = @ + value,
        !.applied[invoiceId] = @ + paymentAmount(value, remaining),
        !.everFull = IF invoices'[invoiceId].paidAmount = invoices'[invoiceId].amount
                     THEN @ \cup {invoiceId} ELSE @]

\* a transfer that went through: the event it is followed by counts
transferred(f) ==
    IF f.fn = "withdraw"
    THEN [history EXCEPT !.withdrawn[f.invoiceId] = @ + f.amount]
    ELSE [history EXCEPT !.pulledBy[f.to] = @ + f.amount]

CreateInvoiceH ==
    \E sender \in Issuers, payer \in Payers, amount \in Amounts, terms \in Terms :
        /\ nextInvoiceId < MaxCreated
        /\ createInvoice(sender, payer, amount, terms[1], terms[2])
        /\ UNCHANGED history
PayInvoiceH ==
    \E sender \in Accounts, invoiceId \in InvoiceIds, value \in Values :
        /\ payInvoice(sender, invoiceId, value)
        /\ result' = Ok => SentTotal + value <= MaxSent
        /\ history' = IF result' = Ok THEN paid(sender, invoiceId, value)
                                      ELSE history
WithdrawH ==
    \E sender \in Accounts, invoiceId \in InvoiceIds :
        withdraw(sender, invoiceId) /\ UNCHANGED history
CancelInvoiceH ==
    \E sender \in Accounts, invoiceId \in InvoiceIds :
        cancelInvoice(sender, invoiceId) /\ UNCHANGED history
WithdrawPendingH ==
    \E sender \in Accounts : withdrawPending(sender) /\ UNCHANGED history
SendValueReturnH ==
    \E success \in BOOLEAN :
        /\ sendValueReturn(success)
        /\ history' = IF success THEN transferred(frame[1]) ELSE history
ReceiveH ==
    \E value \in Values : receive(value) /\ UNCHANGED history

NextH ==
    \/ CreateInvoiceH
    \/ PayInvoiceH
    \/ WithdrawH
    \/ CancelInvoiceH
    \/ WithdrawPendingH
    \/ SendValueReturnH
    \/ ReceiveH

SpecH == Init /\ [][NextH]_vars

\* ---------------------------------------------------------------- dashboard
\* the invoices page, for the account connected to it
\* withdrawnEvents: the ids of the InvoiceWithdrawn events emitted so far
withdrawnEvents == {id \in InvoiceIds : history.withdrawn[id] > 0}

\* const remaining = invoice.amount - invoice.paidAmount
remainingShown(invoice) == invoice.amount - invoice.paidAmount

\* const isPayer: the connected account is the payer, or the invoice is open
isPayer(invoice, connectedAddress) ==
    invoice.payer = connectedAddress \/ invoice.payer = ZeroAddress

\* const wasWithdrawn = withdrawnEvents?.some(event => id matches)
wasWithdrawn(invoice, events) == invoice.id \in events

\* const isFullyPaid = wasWithdrawn || remaining === 0n
isFullyPaid(invoice, events) ==
    wasWithdrawn(invoice, events) \/ remainingShown(invoice) = 0

\* a Pay button that is shown on cancelled invoices too
canPayCancelled(invoice, connectedAddress, events) ==
    /\ ~isFullyPaid(invoice, events)
    /\ remainingShown(invoice) > 0
    /\ (isPayer(invoice, connectedAddress) \/ invoice.payer = ZeroAddress)

\* const canPay: the Pay button is shown
canPay(invoice, connectedAddress, events) ==
    /\ ~invoice.cancelled
    /\ ~isFullyPaid(invoice, events)
    /\ remainingShown(invoice) > 0
    /\ (isPayer(invoice, connectedAddress) \/ invoice.payer = ZeroAddress)

\* const canWithdraw: the Withdraw button is shown
canWithdraw(invoice, connectedAddress) ==
    invoice.issuer = connectedAddress /\ invoice.paidAmount > 0

\* ------------------------------------------------ calls as ledger functions
\* a call made between transactions, as a function of the ledger l it is made
\* on (a record shaped like Snapshot): the outcome it returns and the ledger
\* it leaves; a withdraw's transfer succeeds or fails as `success` says
refused(l, reason) == [result |-> reason, ledger |-> l]

\* a payInvoice that overwrites the sender's pending balance with the excess
payInvoiceOnOverwriting(l, sender, invoiceId, value) ==
    LET invoice == l.invoices[invoiceId] IN
    IF ~(value > 0) THEN refused(l, ErrPaymentZero)
    ELSE IF ~exists(invoice) THEN refused(l, ErrNotExist)
    ELSE IF ~notCancelled(invoice) THEN refused(l, ErrCancelled)
    ELSE IF ~payerAllowed(invoice, sender) THEN refused(l, ErrNotAddressed)
    ELSE IF invoice.paidAmount > invoice.amount THEN refused(l, ErrPanic)
    ELSE LET remaining == invoice.amount - invoice.paidAmount IN
         IF ~hasRemaining(remaining) THEN refused(l, ErrFullyPaid)
         ELSE [result |-> Ok,
               ledger |-> [l EXCEPT
                   !.pendingReturns[sender] =
                       IF value > remaining THEN overpay(value, remaining) ELSE @,
                   !.invoices[invoiceId].paidAmount =
                       @ + paymentAmount(value, remaining),
                   !.balance = @ + value]]

payInvoiceOn(l, sender, invoiceId, value) ==
    LET invoice == l.invoices[invoiceId] IN
    IF ~(value > 0) THEN refused(l, ErrPaymentZero)
    ELSE IF ~exists(invoice) THEN refused(l, ErrNotExist)
    ELSE IF ~notCancelled(invoice) THEN refused(l, ErrCancelled)
    ELSE IF ~payerAllowed(invoice, sender) THEN refused(l, ErrNotAddressed)
    ELSE IF invoice.paidAmount > invoice.amount THEN refused(l, ErrPanic)
    ELSE LET remaining == invoice.amount - invoice.paidAmount IN
         IF ~hasRemaining(remaining) THEN refused(l, ErrFullyPaid)
         ELSE [result |-> Ok,
               ledger |-> [l EXCEPT
                   !.pendingReturns[sender] = @ + overpay(value, remaining),
                   !.invoices[invoiceId].paidAmount =
                       @ + paymentAmount(value, remaining),
                   !.balance = @ + value]]

withdrawOn(l, sender, invoiceId, success) ==
    LET invoice == l.invoices[invoiceId] IN
    IF ~exists(invoice) THEN refused(l, ErrNotExist)
    ELSE IF ~isIssuer(invoice, sender) THEN refused(l, ErrOnlyIssuerWithdraw)
    ELSE IF ~hasFunds(invoice) THEN refused(l, ErrNoFunds)
    ELSE IF l.balance < invoice.paidAmount THEN refused(l, ErrInsufficientBalance)
    ELSE IF ~success THEN refused(l, ErrSendValue)
    ELSE [result |-> Ok,
          ledger |-> [l EXCEPT !.invoices[invoiceId] = withdrawn(invoice),
                               !.balance = @ - invoice.paidAmount]]

cancelInvoiceOn(l, sender, invoiceId) ==
    LET invoice == l.invoices[invoiceId] IN
    IF ~exists(invoice) THEN refused(l, ErrNotExist)
    ELSE IF ~isIssuer(invoice, sender) THEN refused(l, ErrOnlyIssuerCancel)
    ELSE IF ~notCancelled(invoice) THEN refused(l, ErrAlreadyCancelled)
    ELSE [result |-> Ok,
          ledger |-> IF refundDue(invoice)
                     THEN [l EXCEPT
                              !.pendingReturns[invoice.payer] = @ + invoice.paidAmount,
                              !.invoices[invoiceId] = refunded(setCancelled(invoice))]
                     ELSE [l EXCEPT !.invoices[invoiceId] = setCancelled(invoice)]]

\* the calls that can be made on one invoice, and what one of them does
CallsOn(invoiceId) ==
    {[fn |-> "payInvoice", sender |-> s, invoiceId |-> invoiceId, value |-> v,
      success |-> TRUE] : s \in Accounts, v \in Values}
    \cup {[fn |-> "withdraw", sender |-> s, invoiceId |-> invoiceId, value |-> 0,
           success |-> b] : s \in Accounts, b \in BOOLEAN}
    \cup {[fn |-> "cancelInvoice", sender |-> s, invoiceId |-> invoiceId,
           value |-> 0, success |-> TRUE] : s \in Accounts}

callOn(l, call) ==
    IF call.fn = "payInvoice"
    THEN payInvoiceOn(l, call.sender, call.invoiceId, call.value)
    ELSE IF call.fn = "withdraw"
    THEN withdrawOn(l, call.sender, call.invoiceId, call.success)
    ELSE cancelInvoiceOn(l, call.sender, call.invoiceId)

\* ===================================================================
\* Properties
\* ===================================================================
Min(a, b) == IF a < b THEN a ELSE b
Last(seq) == seq[Len(seq)]

RECURSIVE SumOver(_, _)
SumOver(f, S) ==
    IF S = {} THEN 0
    ELSE LET x == CHOOSE y \in S : TRUE IN f[x] + SumOver(f, S \ {x})

\* what the ledger holds for its invoices, and what it owes on pull withdrawal
TotalPaid(inv) == SumOver([i \in InvoiceIds |-> inv[i].paidAmount], InvoiceIds)
TotalPending(pr) == SumOver(pr, Addresses)

\* C1: in every reachable state, between calls and while a transfer is
\* pending, every invoice has 0 <= paidAmount <= amount.
C1_PaidWithinAmount ==
    \A i \in InvoiceIds :
        /\ 0 <= invoices[i].paidAmount
        /\ invoices[i].paidAmount <= invoices[i].amount

\* an overpaying payment has just filled an invoice up to its amount
C1_Witness ==
    /\ result = Ok
    /\ Len(logs) = 1
    /\ logs[1].name = "InvoicePaid"
    /\ invoices[logs[1].id].paidAmount = invoices[logs[1].id].amount
    /\ pendingReturns[logs[1].payer] > 0

\* C2: a payInvoice(invoiceId) with msg.value = value that passes validation
\* adds applied = min(value, amount - paidAmount) to the invoice's paidAmount,
\* adds value - applied to the sender's pendingReturns, changes no other
\* storage, takes in exactly value, and emits InvoicePaid with applied and the
\* new paidAmount.
C2_PayEffect ==
    ~ENABLED (Next /\ vars' # vars /\ ~(
       result' = Ok =>
       \A sender \in Accounts, invoiceId \in InvoiceIds, value \in Values :
        payInvoice(sender, invoiceId, value) =>
            LET invoice == invoices[invoiceId]
                applied == Min(value, invoice.amount - invoice.paidAmount)
            IN  /\ invoices' = [invoices EXCEPT
                                   ![invoiceId].paidAmount = invoice.paidAmount + applied]
                /\ pendingReturns' = [pendingReturns EXCEPT
                                         ![sender] = pendingReturns[sender] + (value - applied)]
                /\ invoices'[invoiceId].paidAmount + pendingReturns'[sender]
                       = invoice.paidAmount + pendingReturns[sender] + value
                /\ balance' = balance + value
                /\ logs' = <<InvoicePaid(invoiceId, sender, applied,
                                         invoice.paidAmount + applied)>>
                /\ sent' = <<>>
                /\ UNCHANGED <<nextInvoiceId, invoiceMetadata, invoicesOfIssuer,
                               invoicesOfPayer, status, frame>>
    ))

\* a payment on an open invoice that was partly paid has just overpaid it, the
\* excess going to the sender
C2_Witness ==
    /\ result = Ok
    /\ Len(logs) = 1
    /\ logs[1].name = "InvoicePaid"
    /\ invoices[logs[1].id].payer = ZeroAddress
    /\ logs[1].amount < logs[1].paidAmount
    /\ pendingReturns[logs[1].payer] > 0
    /\ pendingReturns[logs[1].payer] + logs[1].paidAmount = balance

\* C3: a successful withdraw(invoiceId) by the issuer sets the invoice's
\* paidAmount to 0 and changes no other storage, sends exactly the paidAmount
\* held just before the call to the issuer, and emits InvoiceWithdrawn with
\* that amount.  First conjunct: the call up to the transfer.  Second: the
\* return from the transfer; when the recipient made no call of its own
\* meanwhile, the storage is the one before the call but for paidAmount.
C3_WithdrawEffect ==
    ~ENABLED (Next /\ vars' # vars /\ ~(
       /\ result' = "pending" =>
          \A sender \in Accounts, invoiceId \in InvoiceIds :
            withdraw(sender, invoiceId) =>
                LET invoice == invoices[invoiceId] IN
                /\ sender = invoice.issuer
                /\ invoices' = [invoices EXCEPT ![invoiceId].paidAmount = 0]
                /\ balance' = balance - invoice.paidAmount
                /\ Len(frame') = 1
                /\ frame'[1].fn = "withdraw"
                /\ frame'[1].to = invoice.issuer
                /\ frame'[1].invoiceId = invoiceId
                /\ frame'[1].amount = invoice.paidAmount
                /\ frame'[1].snap.invoices = invoices
                /\ frame'[1].snap.pendingReturns = pendingReturns
                /\ frame'[1].snap.balance = balance
                /\ UNCHANGED <<nextInvoiceId, invoiceMetadata, pendingReturns,
                               invoicesOfIssuer, invoicesOfPayer>>
       /\ (InCallback /\ frame[1].fn = "withdraw" /\ sendValueReturn(TRUE)) =>
            LET f == frame[1]
                before == f.snap.invoices[f.invoiceId]
            IN  /\ result' = Ok
                /\ UNCHANGED ledger
                /\ invoices'[f.invoiceId].paidAmount = 0
                /\ invoices'[f.invoiceId].amount = before.amount
                /\ sent' = <<[to |-> before.issuer, amount |-> before.paidAmount]>>
                /\ Last(logs') = InvoiceWithdrawn(f.invoiceId, before.issuer,
                                                  before.paidAmount)
                /\ f.nested = 0 =>
                     /\ invoices' = [f.snap.invoices EXCEPT
                                        ![f.invoiceId].paidAmount = 0]
                     /\ pendingReturns' = f.snap.pendingReturns
                     /\ balance' = f.snap.balance - before.paidAmount
                     /\ logs' = <<InvoiceWithdrawn(f.invoiceId, before.issuer,
                                                   before.paidAmount)>>
    ))

\* the issuer has just withdrawn a fully paid invoice while another invoice
\* still holds a payment
C3_Witness ==
    /\ result = Ok
    /\ ~InCallback
    /\ Len(logs) = 1
    /\ logs[1].name = "InvoiceWithdrawn"
    /\ logs[1].amount = invoices[logs[1].id].amount
    /\ sent = <<[to |-> logs[1].issuer, amount |-> logs[1].amount]>>
    /\ invoices[logs[1].id].paidAmount = 0
    /\ \E j \in InvoiceIds : j # logs[1].id /\ invoices[j].paidAmount > 0

\* C4: when the transfer inside withdraw fails, the call fails with the
\* transfer error, storage and balance are those of just before the call
\* (calls the recipient made meanwhile included in the rollback), no event and
\* no transfer remain, and the invoice again holds the same amount for its
\* issuer, so that a retry passes validation and sends that amount.
C4_WithdrawRollback ==
    ~ENABLED (Next /\ vars' # vars /\ ~(
       /\ result' = "pending" =>
          \A sender \in Accounts, invoiceId \in InvoiceIds :
            withdraw(sender, invoiceId) =>
                /\ Len(frame') = 1
                /\ frame'[1].snap =
                      [nextInvoiceId |-> nextInvoiceId, invoices |-> invoices,
                       invoiceMetadata |-> invoiceMetadata,
                       pendingReturns |-> pendingReturns,
                       invoicesOfIssuer |-> invoicesOfIssuer,
                       invoicesOfPayer |-> invoicesOfPayer, balance |-> balance]
                /\ frame'[1].amount = invoices[invoiceId].paidAmount
       /\ (InCallback => frame'  = <<>> \/ frame'[1].snap = frame[1].snap)
       /\ (InCallback /\ frame[1].fn = "withdraw" /\ sendValueReturn(FALSE)) =>
            LET f == frame[1] IN
            /\ result' = ErrSendValue
            /\ nextInvoiceId' = f.snap.nextInvoiceId
            /\ invoices' = f.snap.invoices
            /\ invoiceMetadata' = f.snap.invoiceMetadata
            /\ pendingReturns' = f.snap.pendingReturns
            /\ invoicesOfIssuer' = f.snap.invoicesOfIssuer
            /\ invoicesOfPayer' = f.snap.invoicesOfPayer
            /\ balance' = f.snap.balance
            /\ logs' = <<>>
            /\ sent' = <<>>
            /\ status' = NOT_ENTERED
            /\ frame' = <<>>
            /\ f.amount > 0
            /\ invoices'[f.invoiceId].issuer = f.to
            /\ invoices'[f.invoiceId].paidAmount = f.amount
            /\ balance' >= f.amount
    ))

\* a withdraw has just failed in its transfer: nothing is owed on pull
\* withdrawal, so the failed transfer was a withdraw's, and the paid amount is
\* back on the invoice
C4_Witness ==
    /\ result = ErrSendValue
    /\ ~InCallback
    /\ logs = <<>>
    /\ TotalPending(pendingReturns) = 0
    /\ \E i \in InvoiceIds : invoices[i].paidAmount = invoices[i].amount
                             /\ invoices[i].amount > 0

\* C5: withdraw and cancelInvoice on an existing invoice by anyone but its
\* issuer fail and change nothing: with "only issuer can withdraw" / "only
\* issuer can cancel" (a withdraw attempted from inside a pending transfer is
\* turned away by the reentrancy guard before that check).
C5_OnlyIssuer ==
    \A sender \in Accounts, invoiceId \in InvoiceIds :
        (exists(invoices[invoiceId]) /\ sender # invoices[invoiceId].issuer) =>
            /\ ~ENABLED (/\ withdraw(sender, invoiceId)
                         /\ ~(/\ result' = IF InCallback THEN ErrReentrant
                                           ELSE ErrOnlyIssuerWithdraw
                              /\ logs' = TxLogs
                              /\ sent' = TxSent
                              /\ UNCHANGED <<ledger, status>>))
            /\ ~ENABLED (/\ cancelInvoice(sender, invoiceId)
                         /\ ~(/\ result' = ErrOnlyIssuerCancel
                              /\ logs' = TxLogs
                              /\ sent' = TxSent
                              /\ UNCHANGED <<ledger, status>>))

\* someone other than the issuer has just been refused a withdraw on an
\* invoice that holds funds
C5_Witness ==
    /\ result = ErrOnlyIssuerWithdraw
    /\ \E i \in InvoiceIds : invoices[i].paidAmount > 0
    /\ \A i \in InvoiceIds : exists(invoices[i]) => invoices[i].issuer # Owner

\* C6: on an invoice addressed to a specific payer, payInvoice by anyone
\* else fails and changes nothing, with "not addressed to you" once the
\* earlier checks (value, existence, cancelled) have passed; on an open
\* invoice, and for the addressed payer, the payer check never fails and the
\* payment is accepted whenever the other checks pass.  First conjunct: the
\* refusal.  Second: the payer check never refuses an allowed caller.  Third:
\* an allowed caller's payment that passes the other checks does not fail.
C6_PayerCheck ==
    \A sender \in Accounts, invoiceId \in InvoiceIds :
        LET invoice == invoices[invoiceId] IN
        /\ (/\ exists(invoice)
            /\ invoice.payer # ZeroAddress
            /\ invoice.payer # sender) =>
               \A value \in Values :
                   ~ENABLED (/\ payInvoice(sender, invoiceId, value)
                             /\ ~(/\ result' # Ok
                                  /\ logs' = TxLogs
                                  /\ sent' = TxSent
                                  /\ UNCHANGED <<ledger, status>>
                                  /\ (~InCallback /\ value > 0
                                          /\ ~invoice.cancelled) =>
                                         result' = ErrNotAddressed))
        /\ (/\ exists(invoice)
            /\ (invoice.payer = ZeroAddress \/ invoice.payer = sender)) =>
               \A value \in Values :
                   ~ENABLED (/\ payInvoice(sender, invoiceId, value)
                             /\ result' = ErrNotAddressed)
        /\ (/\ exists(invoice)
            /\ (invoice.payer = ZeroAddress \/ invoice.payer = sender)
            /\ ~InCallback
            /\ ~invoice.cancelled
            /\ invoice.paidAmount < invoice.amount) =>
               \A value \in Values \ {0} :
                   ~ENABLED (/\ payInvoice(sender, invoiceId, value)
                             /\ result' # Ok)

\* a payment has just been refused as not addressed to the caller, while an
\* open invoice holds a payment
C6_Witness ==
    /\ result = ErrNotAddressed
    /\ \E i \in InvoiceIds : /\ exists(invoices[i])
                             /\ invoices[i].payer # ZeroAddress
                             /\ ~invoices[i].cancelled
    /\ \E j \in InvoiceIds : /\ exists(invoices[j])
                             /\ invoices[j].payer = ZeroAddress
                             /\ invoices[j].paidAmount > 0

\* C7: a successful cancelInvoice on an invoice addressed to P that holds
\* p > 0 sets cancelled, adds exactly p to pendingReturns[P] and sets
\* paidAmount to 0, so paidAmount and pendingReturns summed over the ledger
\* are unchanged; no value leaves the contract.
C7_CancelRefund ==
    ~ENABLED (Next /\ vars' # vars /\ ~(
       result' = Ok =>
       \A sender \in Accounts, invoiceId \in InvoiceIds :
        LET invoice == invoices[invoiceId] IN
        (/\ invoice.payer # ZeroAddress
         /\ invoice.paidAmount > 0
         /\ cancelInvoice(sender, invoiceId)) =>
            /\ sender = invoice.issuer
            /\ invoices' = [invoices EXCEPT ![invoiceId].cancelled = TRUE,
                                            ![invoiceId].paidAmount = 0]
            /\ pendingReturns' = [pendingReturns EXCEPT ![invoice.payer] =
                                     pendingReturns[invoice.payer] + invoice.paidAmount]
            /\ TotalPaid(invoices') + TotalPending(pendingReturns')
                   = TotalPaid(invoices) + TotalPending(pendingReturns)
            /\ balance' = balance
            /\ sent' = TxSent
            /\ logs' = Append(TxLogs, InvoiceCancelled(invoiceId))
            /\ UNCHANGED <<nextInvoiceId, invoiceMetadata, invoicesOfIssuer,
                           invoicesOfPayer, status>>
    ))

\* the only invoice, addressed to P and fully paid, has just been cancelled:
\* everything the contract holds is now P's pending return
C7_Witness ==
    /\ result = Ok
    /\ ~InCallback
    /\ nextInvoiceId = 1
    /\ logs = <<InvoiceCancelled(0)>>
    /\ invoices[0].cancelled
    /\ invoices[0].paidAmount = 0
    /\ invoices[0].payer # ZeroAddress
    /\ pendingReturns[invoices[0].payer] = invoices[0].amount
    /\ balance = invoices[0].amount

\* C8: a successful cancelInvoice on an open invoice sets cancelled and leaves
\* that invoice's paidAmount, every other invoice and every pendingReturns
\* balance as they were, whatever paidAmount is.
C8_CancelOpen ==
    ~ENABLED (Next /\ vars' # vars /\ ~(
       result' = Ok =>
       \A sender \in Accounts, invoiceId \in InvoiceIds :
        LET invoice == invoices[invoiceId] IN
        (invoice.payer = ZeroAddress /\ cancelInvoice(sender, invoiceId)) =>
            /\ invoices' = [invoices EXCEPT ![invoiceId].cancelled = TRUE]
            /\ invoices'[invoiceId].paidAmount = invoice.paidAmount
            /\ pendingReturns' = pendingReturns
            /\ balance' = balance
            /\ sent' = TxSent
            /\ logs' = Append(TxLogs, InvoiceCancelled(invoiceId))
            /\ UNCHANGED <<nextInvoiceId, invoiceMetadata, invoicesOfIssuer,
                           invoicesOfPayer, status>>
    ))

\* an open invoice that holds a payment has just been cancelled and still
\* holds it
C8_Witness ==
    /\ result = Ok
    /\ logs # <<>>
    /\ Last(logs).name = "InvoiceCancelled"
    /\ invoices[Last(logs).id].payer = ZeroAddress
    /\ invoices[Last(logs).id].cancelled
    /\ invoices[Last(logs).id].paidAmount > 0
    /\ TotalPending(pendingReturns) = 0

\* C9: every successful cancelInvoice on an invoice that held paidAmount > 0
\* leaves the invoice with paidAmount 0 and has credited that amount to
\* pendingReturns.
C9_CancelAlwaysRefunds ==
    [][result' = Ok =>
       \A sender \in Accounts, invoiceId \in InvoiceIds :
        (invoices[invoiceId].paidAmount > 0 /\ cancelInvoice(sender, invoiceId)) =>
            /\ invoices'[invoiceId].paidAmount = 0
            /\ TotalPending(pendingReturns')
                   = TotalPending(pendingReturns) + invoices[invoiceId].paidAmount]_vars

\* C10: cancelled is one-way.  A cancelled flag is cleared only by the revert
\* of the transaction that set it; an invoice cancelled as of the last
\* completed transaction stays cancelled, its paidAmount never rises above
\* what it then held, and every payInvoice on it with value > 0 is refused
\* ("invoice is cancelled"; by the reentrancy guard inside a pending
\* transfer) and changes nothing.
C10_CancelledOneWay ==
    /\ ~ENABLED (/\ Next
                 /\ vars' # vars
                 /\ ~(\A i \in InvoiceIds :
                        LET committed == IF InCallback THEN frame[1].snap.invoices[i]
                                         ELSE invoices[i]
                        IN  /\ (invoices[i].cancelled /\ result' # ErrSendValue) =>
                                  /\ invoices'[i].cancelled
                                  /\ invoices'[i].paidAmount <= invoices[i].paidAmount
                            /\ committed.cancelled =>
                                  /\ invoices'[i].cancelled
                                  /\ invoices'[i].paidAmount <= committed.paidAmount))
    /\ \A i \in InvoiceIds :
        invoices[i].cancelled =>
            \A sender \in Accounts, value \in Values \ {0} :
                ~ENABLED (/\ payInvoice(sender, i, value)
                          /\ ~(/\ result' = IF InCallback THEN ErrReentrant
                                            ELSE ErrCancelled
                               /\ UNCHANGED <<ledger, status>>))

\* a payment has just been refused on a cancelled invoice that could
\* otherwise take it
C10_Witness ==
    /\ result = ErrCancelled
    /\ ~InCallback
    /\ \A i \in InvoiceIds :
          exists(invoices[i]) => /\ invoices[i].cancelled
                                 /\ invoices[i].paidAmount < invoices[i].amount
    /\ \E i \in InvoiceIds : invoices[i].cancelled /\ invoices[i].paidAmount > 0

\* C11: a successful withdrawPending() by an account sets that account's
\* pendingReturns to 0, sends exactly the balance held just before the call
\* to that account, emits PendingReturnWithdrawn with that amount, and leaves
\* every other balance and every invoice as they were.  First conjunct: the
\* call up to the transfer.  Second: the return from the transfer; when the
\* recipient made no call of its own meanwhile, the storage is the one before
\* the call but for the account's balance.
C11_WithdrawPendingEffect ==
    ~ENABLED (Next /\ vars' # vars /\ ~(
       /\ result' = "pending" =>
          \A sender \in Accounts :
            withdrawPending(sender) =>
                /\ pendingReturns[sender] > 0
                /\ pendingReturns' = [pendingReturns EXCEPT ![sender] = 0]
                /\ balance' = balance - pendingReturns[sender]
                /\ Len(frame') = 1
                /\ frame'[1].fn = "withdrawPending"
                /\ frame'[1].to = sender
                /\ frame'[1].amount = pendingReturns[sender]
                /\ frame'[1].snap.invoices = invoices
                /\ frame'[1].snap.pendingReturns = pendingReturns
                /\ frame'[1].snap.balance = balance
                /\ UNCHANGED <<nextInvoiceId, invoices, invoiceMetadata,
                               invoicesOfIssuer, invoicesOfPayer>>
       /\ (InCallback /\ frame[1].fn = "withdrawPending" /\ sendValueReturn(TRUE)) =>
            LET f == frame[1]
                before == f.snap.pendingReturns[f.to]
            IN  /\ result' = Ok
                /\ UNCHANGED ledger
                /\ sent' = <<[to |-> f.to, amount |-> before]>>
                /\ Last(logs') = PendingReturnWithdrawn(f.to, before)
                /\ \A a \in Addresses \ {f.to} :
                       pendingReturns'[a] >= f.snap.pendingReturns[a]
                /\ f.nested = 0 =>
                     /\ pendingReturns' = [f.snap.pendingReturns EXCEPT ![f.to] = 0]
                     /\ invoices' = f.snap.invoices
                     /\ balance' = f.snap.balance - before
                     /\ logs' = <<PendingReturnWithdrawn(f.to, before)>>
    ))

\* an account has just withdrawn its pending returns while another account
\* still has some and an invoice still holds a payment
C11_Witness ==
    /\ result = Ok
    /\ ~InCallback
    /\ Len(logs) = 1
    /\ logs[1].name = "PendingReturnWithdrawn"
    /\ logs[1].amount > 0
    /\ sent = <<[to |-> logs[1].user, amount |-> logs[1].amount]>>
    /\ pendingReturns[logs[1].user] = 0
    /\ \E a \in Accounts : a # logs[1].user /\ pendingReturns[a] > 0
    /\ \E i \in InvoiceIds : invoices[i].paidAmount > 0

\* C12: withdrawPending() by an account whose pendingReturns is 0 fails with
\* "no pending returns" (from inside a pending transfer the reentrancy guard
\* refuses it first) and changes nothing; when the transfer inside
\* withdrawPending fails, the call fails with the transfer error, storage and
\* balance are those of just before the call, the account's pendingReturns is
\* again the amount that was to be sent, and no event and no transfer remain.
C12_WithdrawPendingFails ==
    ~ENABLED (Next /\ vars' # vars /\ ~(
       /\ \A sender \in Accounts :
            (pendingReturns[sender] = 0 /\ withdrawPending(sender)) =>
                /\ result' = IF InCallback THEN ErrReentrant ELSE ErrNoPending
                /\ logs' = TxLogs
                /\ sent' = TxSent
                /\ UNCHANGED <<ledger, status>>
       /\ result' = "pending" =>
          \A sender \in Accounts :
            withdrawPending(sender) =>
                /\ Len(frame') = 1
                /\ frame'[1].to = sender
                /\ frame'[1].amount = pendingReturns[sender]
                /\ frame'[1].snap =
                      [nextInvoiceId |-> nextInvoiceId, invoices |-> invoices,
                       invoiceMetadata |-> invoiceMetadata,
                       pendingReturns |-> pendingReturns,
                       invoicesOfIssuer |-> invoicesOfIssuer,
                       invoicesOfPayer |-> invoicesOfPayer, balance |-> balance]
       /\ (InCallback /\ frame' # <<>>) =>
              /\ frame'[1].snap = frame[1].snap
              /\ frame'[1].to = frame[1].to
              /\ frame'[1].amount = frame[1].amount
       /\ (InCallback /\ frame[1].fn = "withdrawPending" /\ sendValueReturn(FALSE)) =>
            LET f == frame[1] IN
            /\ result' = ErrSendValue
            /\ nextInvoiceId' = f.snap.nextInvoiceId
            /\ invoices' = f.snap.invoices
            /\ invoiceMetadata' = f.snap.invoiceMetadata
            /\ pendingReturns' = f.snap.pendingReturns
            /\ invoicesOfIssuer' = f.snap.invoicesOfIssuer
            /\ invoicesOfPayer' = f.snap.invoicesOfPayer
            /\ balance' = f.snap.balance
            /\ logs' = <<>>
            /\ sent' = <<>>
            /\ status' = NOT_ENTERED
            /\ frame' = <<>>
            /\ f.amount > 0
            /\ pendingReturns'[f.to] = f.amount
    ))

\* a withdrawPending has just failed in its transfer: no invoice holds a
\* payment, so the failed transfer was a withdrawPending's, and the balance
\* is owed again
C12_Witness ==
    /\ result = ErrSendValue
    /\ ~InCallback
    /\ logs = <<>>
    /\ TotalPaid(invoices) = 0
    /\ TotalPending(pendingReturns) > 0
    /\ balance >= TotalPending(pendingReturns)

\* the revert reasons of the contract's own require statements
ValidationErrors ==
    {ErrAmountZero, ErrPaymentZero, ErrNotExist, ErrCancelled, ErrNotAddressed,
     ErrFullyPaid, ErrOnlyIssuerWithdraw, ErrOnlyIssuerCancel, ErrNoFunds,
     ErrAlreadyCancelled, ErrNoPending}

\* C13: a call that fails one of the contract's require checks (or is turned
\* away by the reentrancy guard) leaves invoices, metadata, both indices,
\* nextInvoiceId, every pendingReturns balance, the contract's balance and
\* the guard as they were, and adds no event and no transfer to the
\* transaction; so a refused payInvoice neither raises a paidAmount nor
\* credits pendingReturns.
C13_ValidationNoEffect ==
    ~ENABLED (Next /\ vars' # vars /\ ~(
       result' \in ValidationErrors \cup {ErrReentrant} =>
            /\ UNCHANGED <<ledger, status>>
            /\ logs' = TxLogs
            /\ sent' = TxSent
            /\ frame' = Called
    ))

\* a second cancelInvoice has just been refused while the ledger holds a
\* payment and a pending return
C13_Witness ==
    /\ result = ErrAlreadyCancelled
    /\ ~InCallback
    /\ logs = <<>>
    /\ TotalPaid(invoices) > 0
    /\ TotalPending(pendingReturns) > 0

\* C14: while the transfer of withdraw or withdrawPending is in progress, a
\* call by the recipient to createInvoice, payInvoice, withdraw,
\* cancelInvoice or withdrawPending is rejected and changes no state.
C14_AllGuarded ==
    [][InCallback =>
        LET sender == frame[1].to
            rejected == /\ result' \notin {Ok, "pending"}
                        /\ UNCHANGED <<ledger, status>>
                        /\ logs' = logs
        IN  /\ \A payer \in Payers, amount \in Amounts, terms \in Terms :
                  createInvoice(sender, payer, amount, terms[1], terms[2]) => rejected
            /\ \A invoiceId \in InvoiceIds, value \in Values :
                  payInvoice(sender, invoiceId, value) => rejected
            /\ \A invoiceId \in InvoiceIds :
                  /\ withdraw(sender, invoiceId) => rejected
                  /\ cancelInvoice(sender, invoiceId) => rejected
            /\ withdrawPending(sender) => rejected]_vars

\* C15: while the transfer of withdraw or withdrawPending is in progress,
\* nothing sees the zeroed value: getInvoice and getRemainingAmount show the
\* invoice with the paidAmount it had before the call, and the account's
\* pendingReturns reads as it did before the call.
C15_IntermediateNotObserved ==
    InCallback =>
        LET f == frame[1]
            before == f.snap.invoices[f.invoiceId]
        IN  IF f.fn = "withdraw"
            THEN /\ getInvoice(f.invoiceId).invoice.paidAmount = before.paidAmount
                 /\ getRemainingAmount(f.invoiceId).remaining
                        = before.amount - before.paidAmount
            ELSE pendingReturns[f.to] = f.snap.pendingReturns[f.to]

\* C16: ids are dense and monotonic from 0.  In every state the invoices that
\* exist are those with id < nextInvoiceId, each stored under its own id, and
\* getInvoice / getRemainingAmount fail with "does not exist" exactly for the
\* other ids.  nextInvoiceId is 0 after construction; a createInvoice with
\* amount > 0 returns nextInvoiceId and advances it by exactly 1, a refused
\* one leaves it alone, and nothing else moves it, but the revert of a
\* transaction, which takes back the ids allocated within it.  cancelInvoice,
\* and withdraw and payInvoice with value > 0 made outside a pending transfer,
\* fail with "does not exist" exactly for ids >= nextInvoiceId.
C16_DenseIds ==
    /\ nextInvoiceId = 0
    /\ [](/\ nextInvoiceId \in 0..MaxInvoices
          /\ \A i \in InvoiceIds :
                /\ exists(invoices[i]) <=> i < nextInvoiceId
                /\ exists(invoices[i]) => invoices[i].id = i
                /\ getInvoice(i).error = ErrNotExist <=> i >= nextInvoiceId
                /\ getRemainingAmount(i).error = ErrNotExist <=> i >= nextInvoiceId)
    /\ [][/\ (~InCallback /\ frame' = <<>>) => nextInvoiceId' >= nextInvoiceId
          /\ nextInvoiceId' # nextInvoiceId =>
                \/ /\ result' = Ok
                   /\ nextInvoiceId' = nextInvoiceId + 1
                   /\ Last(logs').name = "InvoiceCreated"
                   /\ Last(logs').id = nextInvoiceId
                   /\ invoices'[nextInvoiceId].id = nextInvoiceId
                \/ /\ result' = ErrSendValue
                   /\ InCallback
                   /\ nextInvoiceId' = frame[1].snap.nextInvoiceId
          /\ \A sender \in Issuers, payer \in Payers, amount \in Amounts,
                terms \in Terms :
                createInvoice(sender, payer, amount, terms[1], terms[2]) =>
                    IF amount > 0
                    THEN /\ result' = Ok
                         /\ nextInvoiceId' = nextInvoiceId + 1
                         /\ Last(logs').id = nextInvoiceId
                    ELSE /\ result' = ErrAmountZero
                         /\ nextInvoiceId' = nextInvoiceId
          /\ result' = ErrNotExist =>
                \A sender \in Accounts, invoiceId \in InvoiceIds :
                    (\/ cancelInvoice(sender, invoiceId)
                     \/ withdraw(sender, invoiceId)
                     \/ \E value \in Values : payInvoice(sender, invoiceId, value))
                        => invoiceId >= nextInvoiceId
          /\ result' # ErrNotExist =>
                \A invoiceId \in InvoiceIds :
                    invoiceId >= nextInvoiceId =>
                        \A sender \in Accounts :
                            /\ ~cancelInvoice(sender, invoiceId)
                            /\ ~InCallback =>
                                  /\ ~withdraw(sender, invoiceId)
                                  /\ \A value \in Values \ {0} :
                                        ~payInvoice(sender, invoiceId, value)]_vars

\* a call has just been refused on the first id not yet allocated, after one
\* successful create
C16_Witness ==
    /\ result = ErrNotExist
    /\ ~InCallback
    /\ nextInvoiceId = 1
    /\ exists(invoices[0])
    /\ getInvoice(0).error = Ok
    /\ getInvoice(1).error = ErrNotExist

\* C17: createInvoice with amount = 0 fails with "amount must be greater than
\* 0" and leaves nextInvoiceId, every record, the metadata and both indices
\* (indeed the whole state) unchanged; with amount > 0 it stores, under the
\* free id nextInvoiceId, a record with the caller as issuer, the given payer,
\* amount and dueDate, paidAmount 0 and cancelled false, and the given
\* metadata, which getInvoice then returns; no other record, no
\* pendingReturns balance and no value changes.
C17_CreateEffect ==
    \A sender \in Issuers, payer \in Payers, amount \in Amounts,
         terms \in Terms :
        ~ENABLED (/\ createInvoice(sender, payer, amount, terms[1], terms[2])
                  /\ ~(
                        IF amount = 0
                        THEN /\ result' = ErrAmountZero
                             /\ logs' = TxLogs
                             /\ UNCHANGED <<ledger, status>>
                        ELSE \A invoiceId \in {nextInvoiceId} :
                             LET record == [id |-> invoiceId, issuer |-> sender,
                                            payer |-> payer, amount |-> amount,
                                            paidAmount |-> 0, dueDate |-> terms[1],
                                            cancelled |-> FALSE]
                             IN  /\ result' = Ok
                                 /\ ~exists(invoices[invoiceId])
                                 /\ invoices' = [invoices EXCEPT ![invoiceId] = record]
                                 /\ invoiceMetadata' =
                                        [invoiceMetadata EXCEPT ![invoiceId] = terms[2]]
                                 /\ getInvoice(invoiceId)' =
                                        [error |-> Ok, invoice |-> record, metadata |-> terms[2]]
                                 /\ logs' = Append(TxLogs,
                                                   InvoiceCreated(invoiceId, sender, payer, amount))
                                 /\ sent' = TxSent
                                 /\ UNCHANGED <<pendingReturns, balance, status>>))

\* a second invoice has just been created while the first holds a payment and
\* a pending return is owed
C17_Witness ==
    /\ result = Ok
    /\ ~InCallback
    /\ logs = <<InvoiceCreated(1, invoices[1].issuer, invoices[1].payer,
                               invoices[1].amount)>>
    /\ nextInvoiceId = 2
    /\ invoices[1].paidAmount = 0
    /\ ~invoices[1].cancelled
    /\ invoices[0].paidAmount > 0
    /\ TotalPending(pendingReturns) > 0

\* C18: once an invoice exists, its id, issuer, payer, amount, dueDate and
\* metadata never change and the record is never deleted, whatever calls
\* follow.  A record goes away only with the revert of the transaction that
\* created it; an invoice that exists as of the last completed transaction
\* keeps these fields in every later state.
C18_FieldsImmutable ==
    ~ENABLED (Next /\ vars' # vars /\ ~(
       \A i \in InvoiceIds :
        LET committed == IF InCallback THEN frame[1].snap.invoices[i]
                         ELSE invoices[i]
            committedMetadata == IF InCallback THEN frame[1].snap.invoiceMetadata[i]
                                 ELSE invoiceMetadata[i]
        IN  /\ (exists(invoices[i]) /\ result' # ErrSendValue) =>
                  /\ exists(invoices'[i])
                  /\ invoices'[i].id = invoices[i].id
                  /\ invoices'[i].issuer = invoices[i].issuer
                  /\ invoices'[i].payer = invoices[i].payer
                  /\ invoices'[i].amount = invoices[i].amount
                  /\ invoices'[i].dueDate = invoices[i].dueDate
                  /\ invoiceMetadata'[i] = invoiceMetadata[i]
            /\ exists(committed) =>
                  /\ exists(invoices'[i])
                  /\ invoices'[i].id = committed.id
                  /\ invoices'[i].issuer = committed.issuer
                  /\ invoices'[i].payer = committed.payer
                  /\ invoices'[i].amount = committed.amount
                  /\ invoices'[i].dueDate = committed.dueDate
                  /\ invoiceMetadata'[i] = committedMetadata
    ))

\* a transfer has just emptied the contract, after an addressed invoice was
\* cancelled and while another invoice, still open for payment, holds nothing
C18_Witness ==
    /\ result = Ok
    /\ ~InCallback
    /\ nextInvoiceId = 2
    /\ Len(logs) = 1
    /\ logs[1].name \in {"PendingReturnWithdrawn", "InvoiceWithdrawn"}
    /\ \E i, j \in InvoiceIds :
          /\ i # j
          /\ invoices[i].cancelled
          /\ invoices[i].payer # ZeroAddress
          /\ invoices[i].amount = MaxAmount
          /\ exists(invoices[j])
          /\ ~invoices[j].cancelled
          /\ invoices[j].paidAmount = 0
    /\ balance = 0

\* the ids of a set, in increasing order
RECURSIVE Ascending(_)
Ascending(S) ==
    IF S = {} THEN <<>>
    ELSE LET least == CHOOSE x \in S : \A y \in S : x <= y
         IN  <<least>> \o Ascending(S \ {least})

IssuedBy(a) == {i \in InvoiceIds : exists(invoices[i]) /\ invoices[i].issuer = a}
AddressedTo(a) == {i \in InvoiceIds : exists(invoices[i]) /\ invoices[i].payer = a}

\* C19: in every state getInvoicesOfIssuer(a) is the increasing sequence of
\* all ids whose issuer is a, and getInvoicesOfPayer(a) the increasing
\* sequence of all ids addressed to a; open invoices are in no payer index
\* (the one of address(0) stays empty), and an account without invoices gets
\* the empty sequence.  An index changes only when a createInvoice succeeds,
\* by the new id appended to the issuer's list and, for an addressed invoice,
\* to the payer's list (or when a failed transfer reverts the transaction,
\* nested creates included); from one completed call to the next every list
\* keeps what it held.
C19_Indices ==
    /\ [](\A a \in Addresses :
            /\ getInvoicesOfIssuer(a) = Ascending(IssuedBy(a))
            /\ getInvoicesOfPayer(a) =
                   IF a = ZeroAddress THEN <<>> ELSE Ascending(AddressedTo(a)))
    /\ [][/\ (invoicesOfIssuer' # invoicesOfIssuer
              \/ invoicesOfPayer' # invoicesOfPayer) =>
                \/ /\ result' = Ok
                   /\ Last(logs').name = "InvoiceCreated"
                   /\ Last(logs').id = nextInvoiceId
                   /\ invoicesOfIssuer' =
                          [invoicesOfIssuer EXCEPT ![Last(logs').issuer] =
                               Append(@, nextInvoiceId)]
                   /\ invoicesOfPayer' =
                          IF Last(logs').payer = ZeroAddress
                          THEN invoicesOfPayer
                          ELSE [invoicesOfPayer EXCEPT ![Last(logs').payer] =
                                    Append(@, nextInvoiceId)]
                \/ /\ result' = ErrSendValue
                   /\ InCallback
                   /\ invoicesOfIssuer' = frame[1].snap.invoicesOfIssuer
                   /\ invoicesOfPayer' = frame[1].snap.invoicesOfPayer
          /\ (~InCallback /\ frame' = <<>>) =>
                \A a \in Addresses :
                    /\ Len(invoicesOfIssuer'[a]) >= Len(invoicesOfIssuer[a])
                    /\ SubSeq(invoicesOfIssuer'[a], 1, Len(invoicesOfIssuer[a]))
                           = invoicesOfIssuer[a]
                    /\ Len(invoicesOfPayer'[a]) >= Len(invoicesOfPayer[a])
                    /\ SubSeq(invoicesOfPayer'[a], 1, Len(invoicesOfPayer[a]))
                           = invoicesOfPayer[a]]_vars

\* one issuer has created an open invoice and then an addressed one: both
\* are in its list, only the second is in a payer's list, and the payer has
\* issued nothing
C19_Witness ==
    /\ result = Ok
    /\ ~InCallback
    /\ invoices[0].payer = ZeroAddress
    /\ invoices[1].payer = 3
    /\ getInvoicesOfIssuer(invoices[0].issuer) = <<0, 1>>
    /\ getInvoicesOfPayer(3) = <<1>>
    /\ getInvoicesOfIssuer(3) = <<>>
    /\ getInvoicesOfPayer(ZeroAddress) = <<>>

\* C20: each call that succeeds appends exactly one event, of its own kind,
\* at the end of the transaction's log: createInvoice InvoiceCreated,
\* payInvoice InvoicePaid (overpaying or not), cancelInvoice InvoiceCancelled
\* (refunding or not), and withdraw / withdrawPending InvoiceWithdrawn /
\* PendingReturnWithdrawn once their transfer has succeeded and nothing
\* before.  A call that fails appends nothing, and a failed transfer leaves
\* no event at all.  Events already in the log keep their place.
C20_OneEventPerCall ==
    ~ENABLED (Next /\ vars' # vars /\ ~(
       /\ result' = Ok =>
            /\ \A sender \in Issuers, payer \in Payers, amount \in Amounts,
                  terms \in Terms :
                  createInvoice(sender, payer, amount, terms[1], terms[2]) =>
                      logs' = Append(TxLogs, InvoiceCreated(nextInvoiceId, sender,
                                                            payer, amount))
            /\ \A sender \in Accounts, invoiceId \in InvoiceIds :
                  /\ cancelInvoice(sender, invoiceId) =>
                        logs' = Append(TxLogs, InvoiceCancelled(invoiceId))
                  /\ \A value \in Values :
                        payInvoice(sender, invoiceId, value) =>
                            /\ Len(logs') = Len(TxLogs) + 1
                            /\ SubSeq(logs', 1, Len(TxLogs)) = TxLogs
                            /\ Last(logs').name = "InvoicePaid"
                            /\ Last(logs').id = invoiceId
                            /\ Last(logs').payer = sender
            /\ (InCallback /\ sendValueReturn(TRUE)) =>
                  logs' = Append(logs,
                                 IF frame[1].fn = "withdraw"
                                 THEN InvoiceWithdrawn(frame[1].invoiceId,
                                                       frame[1].to, frame[1].amount)
                                 ELSE PendingReturnWithdrawn(frame[1].to,
                                                             frame[1].amount))
       /\ result' = "pending" => (~InCallback /\ logs' = <<>>)
       /\ result' = ErrSendValue => logs' = <<>>
       /\ result' \notin {Ok, "pending", ErrSendValue} => logs' = TxLogs
       /\ (InCallback /\ result' # ErrSendValue) =>
            /\ Len(logs') \in {Len(logs), Len(logs) + 1}
            /\ SubSeq(logs', 1, Len(logs)) = logs
    ))

\* a withdraw has just completed whose recipient cancelled an invoice during
\* the transfer: the transaction's log holds the two events in the order the
\* two calls completed
C20_Witness ==
    /\ result = Ok
    /\ ~InCallback
    /\ Len(logs) = 2
    /\ logs[1].name = "InvoiceCancelled"
    /\ logs[2].name = "InvoiceWithdrawn"
    /\ Len(sent) = 1
    /\ sent[1].amount = logs[2].amount

\* C21: on an invoice that is not cancelled and whose paidAmount equals its
\* amount, getRemainingAmount returns 0 and a payInvoice with value > 0 by a
\* caller the invoice admits fails with "already fully paid" (from inside a
\* pending transfer, with the reentrancy guard's error) and changes nothing:
\* no paidAmount, no pendingReturns balance, no value taken in, no event.
C21_FullyPaidRefused ==
    ~ENABLED (Next /\ vars' # vars /\ ~(
       \A invoiceId \in InvoiceIds :
        LET invoice == invoices[invoiceId] IN
        (/\ exists(invoice)
         /\ ~invoice.cancelled
         /\ invoice.paidAmount = invoice.amount) =>
            /\ getRemainingAmount(invoiceId) = [error |-> Ok, remaining |-> 0]
            /\ \A sender \in Accounts :
                  (invoice.payer = ZeroAddress \/ invoice.payer = sender) =>
                      \A value \in Values \ {0} :
                          payInvoice(sender, invoiceId, value) =>
                              /\ result' = IF InCallback THEN ErrReentrant
                                           ELSE ErrFullyPaid
                              /\ logs' = TxLogs
                              /\ sent' = TxSent
                              /\ UNCHANGED <<ledger, status>>
    ))

\* a payment has just been refused on an invoice that payments have filled
\* exactly, nothing being owed on pull withdrawal
C21_Witness ==
    /\ result = ErrFullyPaid
    /\ ~InCallback
    /\ logs = <<>>
    /\ TotalPending(pendingReturns) = 0
    /\ \E i \in InvoiceIds :
          /\ invoices[i].amount > 0
          /\ invoices[i].paidAmount = invoices[i].amount
          /\ ~invoices[i].cancelled
          /\ balance = invoices[i].amount
          /\ getRemainingAmount(i).remaining = 0

\* C22: when a withdraw of a fully paid invoice has completed, the invoice's
\* paidAmount is 0 and getRemainingAmount returns the full amount again; and
\* as long as the invoice is not cancelled, a payInvoice with value > 0 by a
\* caller the invoice admits is then accepted and credited, not refused as
\* fully paid.  First conjunct: the withdraw resets paidAmount and leaves
\* the cancelled flag as it is.  Second: the completion of the withdraw.
\* Third: the payment made in the state the withdraw has left.
C22_PayableAfterWithdraw ==
    ~ENABLED (Next /\ vars' # vars /\ ~(
       /\ result' = "pending" =>
            \A sender \in Accounts, invoiceId \in InvoiceIds :
                withdraw(sender, invoiceId) =>
                    /\ invoices'[invoiceId].paidAmount = 0
                    /\ invoices'[invoiceId].cancelled = invoices[invoiceId].cancelled
       /\ (/\ InCallback
           /\ frame[1].fn = "withdraw"
           /\ frame[1].amount = invoices[frame[1].invoiceId].amount
           /\ sendValueReturn(TRUE)) =>
            \A invoiceId \in {frame[1].invoiceId} :
                /\ frame[1].snap.invoices[invoiceId].paidAmount
                       = invoices[invoiceId].amount
                /\ invoices'[invoiceId].paidAmount = 0
                /\ getRemainingAmount(invoiceId)' =
                       [error |-> Ok, remaining |-> invoices[invoiceId].amount]
       /\ (/\ ~InCallback
           /\ result = Ok
           /\ logs # <<>>
           /\ Last(logs).name = "InvoiceWithdrawn"
           /\ Last(logs).amount = invoices[Last(logs).id].amount) =>
            \A invoiceId \in {Last(logs).id} :
                LET invoice == invoices[invoiceId] IN
                /\ invoice.paidAmount = 0
                /\ getRemainingAmount(invoiceId) =
                       [error |-> Ok, remaining |-> invoice.amount]
                /\ ~invoice.cancelled =>
                      \A sender \in Accounts, value \in Values \ {0} :
                          (/\ invoice.payer = ZeroAddress \/ invoice.payer = sender
                           /\ payInvoice(sender, invoiceId, value)) =>
                              /\ result' = Ok
                              /\ invoices'[invoiceId].paidAmount
                                     = Min(value, invoice.amount)
                              /\ Last(logs').name = "InvoicePaid"
    ))

\* a fully paid invoice has just been withdrawn and is open for payment again
C22_Witness ==
    /\ result = Ok
    /\ ~InCallback
    /\ Len(logs) = 1
    /\ logs[1].name = "InvoiceWithdrawn"
    /\ logs[1].amount = invoices[logs[1].id].amount
    /\ ~invoices[logs[1].id].cancelled
    /\ invoices[logs[1].id].paidAmount = 0
    /\ getRemainingAmount(logs[1].id).remaining = invoices[logs[1].id].amount
    /\ balance = 0

\* C23: withdraw by the issuer on an existing invoice whose paidAmount is 0
\* fails with "no funds to withdraw" (from inside a pending transfer, with
\* the reentrancy guard's error), sends nothing and changes nothing.  A
\* withdraw that sends value always takes it from an invoice holding exactly
\* that amount and leaves the invoice holding 0, so a second withdraw with no
\* payment in between is such a refused call and no funds go out twice.
C23_NoFundsRefused ==
    ~ENABLED (Next /\ vars' # vars /\ ~(
       /\ \A invoiceId \in InvoiceIds :
            LET invoice == invoices[invoiceId] IN
            (exists(invoice) /\ invoice.paidAmount = 0) =>
                \A sender \in {invoice.issuer} :
                    withdraw(sender, invoiceId) =>
                        /\ result' = IF InCallback THEN ErrReentrant ELSE ErrNoFunds
                        /\ logs' = TxLogs
                        /\ sent' = TxSent
                        /\ UNCHANGED <<ledger, status>>
       /\ result' = "pending" =>
            \A sender \in Accounts, invoiceId \in InvoiceIds :
                withdraw(sender, invoiceId) =>
                    /\ invoices[invoiceId].paidAmount > 0
                    /\ frame'[1].amount = invoices[invoiceId].paidAmount
                    /\ balance' = balance - invoices[invoiceId].paidAmount
                    /\ invoices'[invoiceId].paidAmount = 0
       /\ (InCallback /\ frame[1].fn = "withdraw" /\ sendValueReturn(TRUE)) =>
            /\ invoices'[frame[1].invoiceId].paidAmount = 0
            /\ sent' = <<[to |-> frame[1].to, amount |-> frame[1].amount]>>
            /\ TotalPaid(invoices') + frame[1].amount
                   <= TotalPaid(frame[1].snap.invoices)
    ))

\* a withdraw has just been refused for lack of funds: the contract is empty
\* and the only invoice, not cancelled, holds nothing
C23_Witness ==
    /\ result = ErrNoFunds
    /\ ~InCallback
    /\ logs = <<>>
    /\ sent = <<>>
    /\ balance = 0
    /\ nextInvoiceId = 1
    /\ ~invoices[0].cancelled
    /\ invoices[0].paidAmount = 0

\* C24: cancelInvoice by the issuer on a cancelled invoice fails with "already
\* cancelled" and changes nothing.  A cancelInvoice that succeeds finds the
\* invoice not cancelled and leaves it cancelled, and a pendingReturns
\* balance rises only by the overpay of a payInvoice or by the refund of such
\* a cancelInvoice (or is restored by the revert of a transaction); with the
\* flag one-way, an invoice's refund is credited at most once.
C24_CancelOnce ==
    ~ENABLED (Next /\ vars' # vars /\ ~(
       /\ \A invoiceId \in InvoiceIds :
            LET invoice == invoices[invoiceId] IN
            (exists(invoice) /\ invoice.cancelled) =>
                \A sender \in {invoice.issuer} :
                    cancelInvoice(sender, invoiceId) =>
                        /\ result' = ErrAlreadyCancelled
                        /\ logs' = TxLogs
                        /\ sent' = TxSent
                        /\ UNCHANGED <<ledger, status>>
       /\ result' = Ok =>
            \A sender \in Accounts, invoiceId \in InvoiceIds :
                cancelInvoice(sender, invoiceId) =>
                    /\ ~invoices[invoiceId].cancelled
                    /\ invoices'[invoiceId].cancelled
                    /\ TotalPending(pendingReturns') - TotalPending(pendingReturns)
                           \in {0, invoices[invoiceId].paidAmount}
       /\ \A a \in Addresses :
            pendingReturns'[a] > pendingReturns[a] =>
                \/ /\ result' = Ok
                   /\ Last(logs').name = "InvoicePaid"
                   /\ Last(logs').payer = a
                \/ /\ result' = Ok
                   /\ Last(logs').name = "InvoiceCancelled"
                   /\ \A invoiceId \in {Last(logs').id} :
                         /\ ~invoices[invoiceId].cancelled
                         /\ invoices'[invoiceId].cancelled
                         /\ invoices[invoiceId].payer = a
                         /\ pendingReturns'[a]
                                = pendingReturns[a] + invoices[invoiceId].paidAmount
                         /\ invoices'[invoiceId].paidAmount = 0
                \/ /\ result' = ErrSendValue
                   /\ InCallback
                   /\ pendingReturns'[a] = frame[1].snap.pendingReturns[a]
    ))

\* a second cancelInvoice has just been refused on the only invoice, whose
\* refund, credited by the first, is all the contract holds
C24_Witness ==
    /\ result = ErrAlreadyCancelled
    /\ ~InCallback
    /\ nextInvoiceId = 1
    /\ invoices[0].cancelled
    /\ invoices[0].payer # ZeroAddress
    /\ invoices[0].paidAmount = 0
    /\ balance > 0
    /\ pendingReturns[invoices[0].payer] = balance

\* C25: in every state, for every existing invoice, getRemainingAmount
\* succeeds and returns exactly amount - paidAmount, which is never negative
\* (the branch returning 0 is taken only when the difference is 0): the full
\* amount while nothing is paid, amount - p once p has been paid.
C25_RemainingAmount ==
    \A i \in InvoiceIds :
        exists(invoices[i]) =>
            /\ getRemainingAmount(i).error = Ok
            /\ getRemainingAmount(i).remaining
                   = invoices[i].amount - invoices[i].paidAmount
            /\ getRemainingAmount(i).remaining >= 0
            /\ getRemainingAmount(i).remaining + getInvoice(i).invoice.paidAmount
                   = getInvoice(i).invoice.amount

\* a partial payment has just been made: getRemainingAmount returns what is
\* left, while an invoice nobody has paid returns its full amount
C25_Witness ==
    /\ result = Ok
    /\ Len(logs) = 1
    /\ logs[1].name = "InvoicePaid"
    /\ logs[1].paidAmount < invoices[logs[1].id].amount
    /\ getRemainingAmount(logs[1].id).remaining
           = invoices[logs[1].id].amount - logs[1].paidAmount
    /\ getRemainingAmount(logs[1].id).remaining > 0
    /\ \E j \in InvoiceIds :
          /\ exists(invoices[j])
          /\ getRemainingAmount(j).remaining = invoices[j].amount

\* C26: in every state every pendingReturns balance is >= 0.  A balance goes
\* down only to 0, by the withdrawPending of its account, which sends exactly
\* what the balance held (or back to its value at the start of the
\* transaction, by a revert).
C26_PendingNonNegative ==
    /\ [](\A a \in Addresses : pendingReturns[a] >= 0)
    /\ [][\A a \in Addresses :
            pendingReturns'[a] < pendingReturns[a] =>
                \/ /\ result' = "pending"
                   /\ pendingReturns'[a] = 0
                   /\ frame'[1].fn = "withdrawPending"
                   /\ frame'[1].to = a
                   /\ frame'[1].amount = pendingReturns[a]
                   /\ balance' = balance - pendingReturns[a]
                   /\ balance' >= 0
                \/ /\ result' = ErrSendValue
                   /\ InCallback
                   /\ pendingReturns'[a] = frame[1].snap.pendingReturns[a]
                   /\ pendingReturns'[a] >= 0]_vars

\* an account with a pending balance above the smallest has just started to
\* pull it: its balance reads 0 and the whole amount is on its way
C26_Witness ==
    /\ InCallback
    /\ result = "pending"
    /\ frame[1].fn = "withdrawPending"
    /\ frame[1].amount > 1
    /\ frame[1].snap.pendingReturns[frame[1].to] = frame[1].amount
    /\ pendingReturns[frame[1].to] = 0

\* C28: payInvoice reports the first check that fails, in the order
\* msg.value > 0, invoice exists, not cancelled, payer admitted, not fully
\* paid, and succeeds when none does (calls made outside a pending transfer;
\* inside one the reentrancy guard comes first).  So value 0 on an id that
\* does not exist gives the value error, a caller the invoice does not admit
\* gets "is cancelled" on a cancelled invoice and "not addressed to you" on a
\* fully paid one, and a cancelled open invoice that is fully paid gives "is
\* cancelled".
C28_PayCheckOrder ==
    ~InCallback =>
        \A sender \in Accounts, invoiceId \in InvoiceIds, value \in Values :
            LET invoice == invoices[invoiceId] IN
            ~ENABLED (/\ payInvoice(sender, invoiceId, value)
                      /\ result' #
                            IF value = 0 THEN ErrPaymentZero
                            ELSE IF invoice.issuer = ZeroAddress THEN ErrNotExist
                            ELSE IF invoice.cancelled THEN ErrCancelled
                            ELSE IF invoice.payer # ZeroAddress /\ invoice.payer # sender
                                 THEN ErrNotAddressed
                            ELSE IF invoice.paidAmount = invoice.amount THEN ErrFullyPaid
                            ELSE Ok)

\* a payment on the only invoice, open, fully paid and cancelled, has just
\* been refused as cancelled, not as fully paid
C28_Witness ==
    /\ result = ErrCancelled
    /\ ~InCallback
    /\ nextInvoiceId = 1
    /\ invoices[0].cancelled
    /\ invoices[0].payer = ZeroAddress
    /\ invoices[0].paidAmount = invoices[0].amount

\* C29: withdraw and cancelInvoice check existence first, then the issuer,
\* then the state (calls made outside a pending transfer; inside one the
\* reentrancy guard of withdraw comes first).  On an id that does not exist
\* every caller gets "does not exist"; on an existing invoice anyone but the
\* issuer gets "only issuer can withdraw" / "only issuer can cancel", also
\* when the invoice holds nothing or is already cancelled; the issuer gets
\* "no funds to withdraw" / "already cancelled" when that is the case.
C29_IssuerCheckOrder ==
    \A sender \in Accounts, invoiceId \in InvoiceIds :
        LET invoice == invoices[invoiceId] IN
        /\ ~InCallback =>
              ~ENABLED (/\ withdraw(sender, invoiceId)
                        /\ result' #
                              IF invoice.issuer = ZeroAddress THEN ErrNotExist
                              ELSE IF invoice.issuer # sender THEN ErrOnlyIssuerWithdraw
                              ELSE IF invoice.paidAmount = 0 THEN ErrNoFunds
                              ELSE "pending")
        /\ ~ENABLED (/\ cancelInvoice(sender, invoiceId)
                     /\ result' #
                              IF invoice.issuer = ZeroAddress THEN ErrNotExist
                              ELSE IF invoice.issuer # sender THEN ErrOnlyIssuerCancel
                              ELSE IF invoice.cancelled THEN ErrAlreadyCancelled
                              ELSE Ok)

\* someone other than the issuer has just been refused a cancelInvoice, as
\* not being the issuer, on invoices that are all cancelled already
C29_Witness ==
    /\ result = ErrOnlyIssuerCancel
    /\ ~InCallback
    /\ nextInvoiceId > 0
    /\ \A i \in InvoiceIds : exists(invoices[i]) => invoices[i].cancelled

\* C30: withdraw and withdrawPending capture the amount and zero the balance
\* before the transfer.  At the moment the recipient gains control, the
\* invoice's paidAmount (the account's pendingReturns) reads 0, the amount on
\* its way is the one held before the call, and the transaction has emitted
\* nothing; as long as the transfer is pending the withdrawn invoice keeps
\* reading 0 and the log holds no InvoiceWithdrawn or PendingReturnWithdrawn,
\* which is emitted only once the transfer has succeeded.
C30_ZeroBeforeTransfer ==
    InCallback =>
        LET f == frame[1] IN
        /\ f.amount > 0
        /\ \A k \in 1..Len(logs) :
              logs[k].name \notin {"InvoiceWithdrawn", "PendingReturnWithdrawn"}
        /\ sent = <<>>
        /\ f.fn = "withdraw" =>
              /\ invoices[f.invoiceId].paidAmount = 0
              /\ f.snap.invoices[f.invoiceId].paidAmount = f.amount
              /\ f.snap.invoices[f.invoiceId].issuer = f.to
        /\ f.fn = "withdrawPending" =>
              f.snap.pendingReturns[f.to] = f.amount
        /\ f.nested = 0 =>
              /\ result = "pending"
              /\ logs = <<>>
              /\ balance = f.snap.balance - f.amount
              /\ f.fn = "withdrawPending" =>
                    /\ pendingReturns[f.to] = 0
                    /\ invoices = f.snap.invoices
              /\ f.fn = "withdraw" =>
                    /\ pendingReturns = f.snap.pendingReturns
                    /\ invoices = [f.snap.invoices EXCEPT
                                       ![f.invoiceId].paidAmount = 0]

\* the issuer of a fully paid invoice has just gained control in the transfer
\* of its withdraw: the invoice reads 0 and nothing has been emitted
C30_Witness ==
    /\ InCallback
    /\ result = "pending"
    /\ frame[1].fn = "withdraw"
    /\ frame[1].nested = 0
    /\ frame[1].amount = invoices[frame[1].invoiceId].amount
    /\ invoices[frame[1].invoiceId].paidAmount = 0
    /\ logs = <<>>

\* C31: an account's pending-returns balance changes only through a successful
\* overpaying payInvoice by that account (up by the overpay), a successful
\* cancelInvoice of an invoice addressed to that account with paidAmount > 0
\* (up by paidAmount) and that account's own withdrawPending (reset to 0); a
\* transaction that reverts on a failed transfer puts every balance back to
\* what it was when the transaction began; createInvoice,
\* withdraw, payments that do not overpay, the cancellation of open or unpaid
\* invoices and other accounts' withdrawPending leave it unchanged
C31_PendingFrame ==
    ~ENABLED (Next /\ vars' # vars /\ ~(
       /\ \A a \in Addresses :
            pendingReturns'[a] # pendingReturns[a] =>
                /\ \/ /\ result' = Ok
                      /\ Last(logs').name = "InvoicePaid"
                      /\ \A invoiceId \in {Last(logs').id} :
                            LET remaining == invoices[invoiceId].amount
                                                 - invoices[invoiceId].paidAmount IN
                            \E value \in Values :
                                /\ payInvoice(a, invoiceId, value)
                                /\ value > remaining
                                /\ pendingReturns'[a] =
                                       pendingReturns[a] + (value - remaining)
                   \/ /\ result' = Ok
                      /\ Last(logs').name = "InvoiceCancelled"
                      /\ \A invoiceId \in {Last(logs').id} :
                            /\ \E sender \in Accounts : cancelInvoice(sender, invoiceId)
                            /\ invoices[invoiceId].payer = a
                            /\ invoices[invoiceId].paidAmount > 0
                            /\ pendingReturns'[a] =
                                   pendingReturns[a] + invoices[invoiceId].paidAmount
                   \/ /\ result' = "pending"
                      /\ withdrawPending(a)
                      /\ pendingReturns'[a] = 0
                   \/ /\ result' = ErrSendValue
                      /\ InCallback
                      /\ pendingReturns'[a] = frame[1].snap.pendingReturns[a]
                /\ \A sender \in Accounts \ {a} : ~withdrawPending(sender)
       /\ pendingReturns' # pendingReturns =>
            /\ \A sender \in Issuers, payer \in Payers, amount \in Amounts,
                  terms \in Terms :
                    ~createInvoice(sender, payer, amount, terms[1], terms[2])
            /\ \A sender \in Accounts, invoiceId \in InvoiceIds :
                    ~withdraw(sender, invoiceId)
            /\ \A sender \in Accounts, invoiceId \in InvoiceIds, value \in Values :
                    payInvoice(sender, invoiceId, value) =>
                        value > invoices[invoiceId].amount
                                    - invoices[invoiceId].paidAmount
            /\ \A sender \in Accounts, invoiceId \in InvoiceIds :
                    cancelInvoice(sender, invoiceId) =>
                        /\ invoices[invoiceId].payer # ZeroAddress
                        /\ invoices[invoiceId].paidAmount > 0
    ))

\* an account has just had its balance reset by its own withdrawPending, the
\* transfer still pending, while another account keeps a balance
C31_Witness ==
    /\ result = "pending"
    /\ frame[1].fn = "withdrawPending"
    /\ pendingReturns[frame[1].to] = 0
    /\ \E a \in Accounts \ {frame[1].to} : pendingReturns[a] > 0

\* C32: value leaves the contract only through withdraw and withdrawPending,
\* and every transfer goes to the caller of the function that makes it:
\* withdraw sends the invoice's paidAmount to its issuer, withdrawPending sends
\* an account's balance to that account; createInvoice, payInvoice and
\* cancelInvoice never send value out (the one other way the contract's balance
\* goes down is the revert of a transaction that had received a deposit)
C32_ValueLeaves ==
    ~ENABLED (Next /\ vars' # vars /\ ~(
       /\ balance' < balance =>
            \/ /\ result' = "pending"
               /\ \A to \in {frame'[1].to} :
                     \/ /\ frame'[1].fn = "withdraw"
                        /\ \A invoiceId \in {frame'[1].invoiceId} :
                              /\ withdraw(to, invoiceId)
                              /\ invoices[invoiceId].issuer = to
                              /\ frame'[1].amount = invoices[invoiceId].paidAmount
                     \/ /\ frame'[1].fn = "withdrawPending"
                        /\ withdrawPending(to)
                        /\ frame'[1].amount = pendingReturns[to]
                        /\ pendingReturns'[to] = 0
               /\ balance' = balance - frame'[1].amount
            \/ /\ result' = ErrSendValue
               /\ InCallback
               /\ balance' = frame[1].snap.balance
       /\ (sent' # <<>> /\ sent' # sent) =>
            /\ sendValueReturn(TRUE)
            /\ sent' = Append(sent, [to |-> frame[1].to, amount |-> frame[1].amount])
            /\ \/ Last(logs') = InvoiceWithdrawn(frame[1].invoiceId, frame[1].to,
                                                 frame[1].amount)
               \/ Last(logs') = PendingReturnWithdrawn(frame[1].to, frame[1].amount)
       /\ (balance' < balance \/ (sent' # <<>> /\ sent' # sent)) =>
            /\ \A sender \in Issuers, payer \in Payers, amount \in Amounts,
                  terms \in Terms :
                    ~createInvoice(sender, payer, amount, terms[1], terms[2])
            /\ \A sender \in Accounts, invoiceId \in InvoiceIds, value \in Values :
                    ~payInvoice(sender, invoiceId, value)
            /\ \A sender \in Accounts, invoiceId \in InvoiceIds :
                    ~cancelInvoice(sender, invoiceId)
    ))

\* account 2 has withdrawn from an invoice it issued: the one transfer of the
\* transaction went to account 2
C32_Witness ==
    /\ result = Ok
    /\ logs # <<>>
    /\ Last(logs).name = "InvoiceWithdrawn"
    /\ Last(logs).issuer = 2
    /\ invoices[Last(logs).id].issuer = 2
    /\ sent = <<[to |-> 2, amount |-> Last(logs).amount]>>

\* C33: an InvoiceWithdrawn event for an invoice implies that the invoice's
\* paidAmount had reached its amount at some earlier point, so an invoice the
\* dashboard counts as fully paid (withdrawn before, or nothing remaining) is
\* one whose payments did reach its amount
C33_WithdrawnWasPaid ==
    \A id \in InvoiceIds :
        (id < nextInvoiceId /\ isFullyPaid(invoices[id], withdrawnEvents)) =>
            id \in history.everFull

\* what the contract holds beyond its obligations
Surplus == balance - TotalPaid(invoices) - TotalPending(pendingReturns)

\* C34: in every reachable state, between calls and while a transfer is
\* pending, the contract's balance is the sum of all paidAmounts, all
\* pendingReturns and the value sent to it directly: the balance never falls
\* below the obligations, what it holds beyond them is 0 at deployment and
\* changes only by a direct deposit, by its value (a reverting transaction
\* takes the deposits made within it back), so no transfer of withdraw or
\* withdrawPending fails for lack of balance and no deposit is ever paid out
C34_Conservation ==
    /\ Surplus = 0
    /\ [](Surplus >= 0 /\ result # ErrInsufficientBalance)
    /\ [][(<<balance, invoices, pendingReturns>>' # <<balance, invoices, pendingReturns>>
            /\ Surplus' # Surplus) =>
            \/ /\ result' = Ok
               /\ \E value \in Values : receive(value) /\ Surplus' = Surplus + value
            \/ /\ result' = ErrSendValue
               /\ InCallback
               /\ Surplus' = frame[1].snap.balance
                                 - TotalPaid(frame[1].snap.invoices)
                                 - TotalPending(frame[1].snap.pendingReturns)
               /\ Surplus' < Surplus]_vars

\* a withdrawal has gone through while the contract holds direct deposits and
\* still owes paid or pending amounts
C34_Witness ==
    /\ result = Ok
    /\ sent # <<>>
    /\ Surplus > 0
    /\ TotalPaid(invoices) + TotalPending(pendingReturns) > 0

\* C35: over any sequence of calls, the sum of the InvoiceWithdrawn amounts of
\* one invoice, and likewise the sum of the amounts its payments applied,
\* never exceeds the invoice's amount
C35_TotalsWithinAmount ==
    \A id \in InvoiceIds :
        /\ history.withdrawn[id] <= invoices[id].amount
        /\ history.applied[id] <= invoices[id].amount

\* C36: cancellation does not block withdrawal and funds are never locked. In
\* every reachable state between transactions, for every invoice with
\* paidAmount > 0, cancelled or not, withdraw by its issuer passes validation,
\* sends exactly paidAmount to the issuer and zeroes it, touching no other
\* invoice and no pending balance; for every account with a pending balance,
\* withdrawPending passes validation, sends the balance and zeroes it, touching
\* nothing else; and a pending transfer can succeed, which commits the call
\* with its event. So each such call that goes through leaves one non-zero
\* entry fewer, and some sequence of them brings every paidAmount and pending
\* balance to 0
C36_NeverLocked ==
    /\ ~InCallback =>
        /\ \A id \in InvoiceIds :
              invoices[id].paidAmount > 0 =>
                  ENABLED (/\ withdraw(invoices[id].issuer, id)
                           /\ result' = "pending"
                           /\ frame'[1].to = invoices[id].issuer
                           /\ frame'[1].amount = invoices[id].paidAmount
                           /\ invoices' = [invoices EXCEPT ![id].paidAmount = 0]
                           /\ pendingReturns' = pendingReturns)
        /\ \A a \in Addresses :
              pendingReturns[a] > 0 =>
                  ENABLED (/\ withdrawPending(a)
                           /\ result' = "pending"
                           /\ frame'[1].to = a
                           /\ frame'[1].amount = pendingReturns[a]
                           /\ pendingReturns' = [pendingReturns EXCEPT ![a] = 0]
                           /\ invoices' = invoices)
    /\ InCallback =>
          ENABLED (/\ sendValueReturn(TRUE)
                   /\ result' = Ok
                   /\ sent' = Append(sent, [to |-> frame[1].to,
                                            amount |-> frame[1].amount])
                   /\ Last(logs') = emitAfterTransfer(frame[1])
                   /\ frame' = <<>>
                   /\ UNCHANGED ledger)

\* the issuer has withdrawn what a cancelled open invoice had collected, and
\* nothing is left in any invoice or pending balance
C36_Witness ==
    /\ result = Ok
    /\ sent # <<>>
    /\ logs # <<>>
    /\ Last(logs).name = "InvoiceWithdrawn"
    /\ invoices[Last(logs).id].cancelled
    /\ invoices[Last(logs).id].payer = ZeroAddress
    /\ Last(sent) = [to |-> invoices[Last(logs).id].issuer, amount |-> Last(logs).amount]
    /\ TotalPaid(invoices) = 0
    /\ TotalPending(pendingReturns) = 0

\* C37: in every reachable state a cancelled invoice addressed to a specific
\* payer has paidAmount = 0, so a withdraw on it never reaches its transfer:
\* the issuer's call is refused for lack of funds (or, made inside a pending
\* transfer, by the reentrancy guard before that)
C37_CancelledAddressedEmpty ==
    /\ [](\A id \in InvoiceIds :
            (invoices[id].cancelled /\ invoices[id].payer # ZeroAddress) =>
                invoices[id].paidAmount = 0)
    /\ [][\A id \in InvoiceIds :
            (invoices[id].cancelled /\ invoices[id].payer # ZeroAddress) =>
                /\ withdraw(invoices[id].issuer, id) =>
                       /\ result' = IF status = ENTERED THEN ErrReentrant ELSE ErrNoFunds
                       /\ UNCHANGED ledger
                /\ result' = "pending" =>
                       (frame'[1].fn = "withdraw" => frame'[1].invoiceId # id)]_vars

\* the only invoice there is was addressed to a payer who paid into it and got
\* the refund when it was cancelled; the withdraw just made on it was refused
C37_Witness ==
    /\ result = ErrNoFunds
    /\ nextInvoiceId = 1
    /\ invoices[0].cancelled
    /\ invoices[0].payer # ZeroAddress
    /\ invoices[0].paidAmount = 0
    /\ pendingReturns[invoices[0].payer] > 0

\* C38: for every account, in every reachable state, its pending-returns
\* balance plus the total it has pulled through withdrawPending so far is at
\* most the total msg.value of its successful payInvoice calls
C38_PendingBacked ==
    \A a \in Addresses :
        pendingReturns[a] + history.pulledBy[a] <= history.sentBy[a]

\* an account has pulled an overpayment and then been refunded a cancelled
\* invoice: what it pulled and what it is still owed add up to all it sent
C38_Witness ==
    \E a \in Accounts :
        /\ result = Ok
        /\ logs # <<>>
        /\ Last(logs).name = "InvoiceCancelled"
        /\ invoices[Last(logs).id].payer = a
        /\ history.pulledBy[a] > 0
        /\ pendingReturns[a] > 0
        /\ pendingReturns[a] + history.pulledBy[a] = history.sentBy[a]

\* the functions above give, for every call that can be made between
\* transactions, the outcome and the ledger the call itself gives
AgreesWithCalls ==
    /\ \A sender \in Accounts, invoiceId \in InvoiceIds, value \in Values :
          balance + value <= MaxFunds =>
              ENABLED (/\ payInvoice(sender, invoiceId, value)
                       /\ result' = payInvoiceOn(Snapshot, sender, invoiceId, value).result
                       /\ Snapshot' = payInvoiceOn(Snapshot, sender, invoiceId, value).ledger)
    /\ \A sender \in Accounts, invoiceId \in InvoiceIds :
          /\ ENABLED (/\ cancelInvoice(sender, invoiceId)
                      /\ result' = cancelInvoiceOn(Snapshot, sender, invoiceId).result
                      /\ Snapshot' = cancelInvoiceOn(Snapshot, sender, invoiceId).ledger)
          /\ ENABLED (/\ withdraw(sender, invoiceId)
                      /\ Snapshot' = withdrawOn(Snapshot, sender, invoiceId, TRUE).ledger
                      /\ result' =
                            IF withdrawOn(Snapshot, sender, invoiceId, TRUE).result = Ok
                            THEN "pending"
                            ELSE withdrawOn(Snapshot, sender, invoiceId, TRUE).result)
          /\ withdrawOn(Snapshot, sender, invoiceId, FALSE).ledger = Snapshot

\* C39: calls on different invoices commute. For two distinct existing
\* invoices i and j, any payInvoice, withdraw or cancelInvoice on i and any on
\* j, made one after the other on the ledger of a reachable state, give each
\* call the same outcome and leave the same invoices, pending balances and
\* balance in either order, also when both credit the same account. (Checked
\* on the states a successful call or deployment leaves: a refused call and a
\* reverted transfer leave the ledger of an earlier such state.)
C39_Commute ==
    (~InCallback /\ result = Ok) =>
        /\ AgreesWithCalls
        /\ \A i \in InvoiceIds, j \in InvoiceIds :
              (i < j /\ exists(invoices[i]) /\ exists(invoices[j])) =>
                  \A l \in {Snapshot} :
                      LET after == [c \in CallsOn(j) |-> callOn(l, c)] IN
                      \A first \in CallsOn(i) :
                          \A a1 \in {callOn(l, first)} :
                              \A second \in CallsOn(j) :
                                  LET a2 == callOn(a1.ledger, second)
                                      b2 == after[second]
                                      b1 == callOn(b2.ledger, first)
                                  IN  /\ a1.result = b1.result
                                      /\ a2.result = b2.result
                                      /\ a2.ledger = b1.ledger

\* both orders of two overpaying payments by the same account on two invoices
\* have been made possible: two open invoices exist with something left to pay
C39_Witness ==
    /\ ~InCallback
    /\ result = Ok
    /\ nextInvoiceId = 2
    /\ \E s \in Accounts :
          LET a1 == payInvoiceOn(Snapshot, s, 0, 3)
              a2 == payInvoiceOn(a1.ledger, s, 1, 3)
          IN  /\ a1.result = Ok
              /\ a2.result = Ok
              /\ a2.ledger.pendingReturns[s] > a1.ledger.pendingReturns[s]
              /\ a1.ledger.pendingReturns[s] > pendingReturns[s]

\* C40: with an up-to-date view of the contract, every action the dashboard
\* offers is accepted. In every reachable state between transactions, for
\* every connected account, every existing invoice and whatever
\* InvoiceWithdrawn events the page has seen: where Pay is shown, payInvoice by
\* the connected account with msg.value = amount - paidAmount passes every
\* check, brings paidAmount to amount and credits no pending return; where
\* Withdraw is shown, withdraw by the connected account passes every check and
\* starts its transfer of paidAmount
C40_OfferedAccepted ==
    ~InCallback =>
        \A connectedAddress \in Accounts, id \in InvoiceIds :
            id < nextInvoiceId =>
                /\ \A events \in SUBSET InvoiceIds :
                      (/\ canPay(invoices[id], connectedAddress, events)
                       /\ balance + remainingShown(invoices[id]) <= MaxFunds) =>
                          ENABLED (/\ payInvoice(connectedAddress, id,
                                                 remainingShown(invoices[id]))
                                   /\ result' = Ok
                                   /\ invoices'[id].paidAmount = invoices[id].amount
                                   /\ pendingReturns' = pendingReturns)
                /\ canWithdraw(invoices[id], connectedAddress) =>
                      ENABLED (/\ withdraw(connectedAddress, id)
                               /\ result' = "pending"
                               /\ frame'[1].amount = invoices[id].paidAmount)

\* a payment of exactly what remained has just filled an invoice: its issuer
\* is now shown Withdraw, its payer no longer Pay, and the payer is shown Pay
\* on another invoice
C40_Witness ==
    /\ result = Ok
    /\ Len(logs) = 1
    /\ logs[1].name = "InvoicePaid"
    /\ logs[1].paidAmount = invoices[logs[1].id].amount
    /\ TotalPending(pendingReturns) = 0
    /\ canWithdraw(invoices[logs[1].id], invoices[logs[1].id].issuer)
    /\ ~canPay(invoices[logs[1].id], logs[1].payer, {})
    /\ \E id \in InvoiceIds :
          id < nextInvoiceId /\ canPay(invoices[id], logs[1].payer, {})

====
